---- MODULE Spec2Model ----
\* TLA+ model of hildjj/expat-wasm: the Handle Table (lib/pointers.js) and the
\* XmlParser binding (lib/index.js) over the expat engine.
EXTENDS Integers, Sequences, FiniteSets, TLC

\* ---------------------------------------------------------------- bounds
\* Number of host objects / parser instances the model creates.
MaxInst == 2
\* remove() is tried on every integer 0..MaxIndex, issued or not.
MaxIndex == 2
\* The Handle Table is not grown past this many slots by push.
MaxSize == 3
\* parse() is not called on a parser that was already given more bytes of
\* the current document than this.
MaxPending == 3

\* ---------------------------------------------------------------- values
\* JavaScript `undefined` in a slot of #pointers (a hole, or past the end).
Absent == 0
\* JavaScript `undefined` for this.id after `delete this.id`.
NoId == -1
Objs == 1..MaxInst

Min(a, b) == IF a < b THEN a ELSE b
Max(a, b) == IF a > b THEN a ELSE b

VARIABLES
  pointers,   \* Pointers.#pointers : slot i of the array is pointers[i+1]
  unused,     \* Pointers.#unused   : stack of released indices
  inst,       \* the XmlParser objects: their parser and id fields
  eng,        \* the engine heap: the parser struct at each address
  live,       \* history: handles returned by add and not removed since
  hist,       \* history: per instance, how its last operation ended
  lastCall    \* history: the last operation, its arguments and its outcome

vars == <<pointers, unused, inst, eng, live, hist, lastCall>>

\* ------------------------------------------------------- lib/pointers.js
\* A JavaScript array is held as the function from k + 1 to its slot k (a
\* sequence), and an own property under a negative index i, which is no
\* slot and does not count for the length, as the value at i itself.
NegKeys(arr) == {k \in DOMAIN arr : k < 0}

\* arr.length
ArrayLength(arr) ==
  IF NegKeys(arr) = {} THEN Len(arr)
  ELSE Cardinality(DOMAIN arr \ NegKeys(arr))

\* arr.push(obj): the array afterwards.
ArrayPush(arr, obj) ==
  IF NegKeys(arr) = {} THEN Append(arr, obj)
  ELSE [k \in DOMAIN arr \cup {ArrayLength(arr) + 1} |->
          IF k \in DOMAIN arr THEN arr[k] ELSE obj]

\* arr[index] = obj on a JavaScript array: extends the array with holes when
\* index is past the end, and sets the property index when it is negative.
ArraySet(arr, index, obj) ==
  IF index >= 0 /\ NegKeys(arr) = {}
  THEN [k \in 1..Max(Len(arr), index + 1) |->
          IF k = index + 1 THEN obj
          ELSE IF k <= Len(arr) THEN arr[k] ELSE Absent]
  ELSE IF index >= 0
  THEN [k \in NegKeys(arr) \cup (1..Max(ArrayLength(arr), index + 1)) |->
          IF k = index + 1 THEN obj
          ELSE IF k \in DOMAIN arr THEN arr[k] ELSE Absent]
  ELSE [k \in DOMAIN arr \cup {index} |->
          IF k = index THEN obj ELSE arr[k]]

\* delete arr[index]: leaves a hole, never changes the length; a property
\* under a negative index is gone.
ArrayDelete(arr, index) ==
  IF NegKeys(arr) = {}
  THEN [k \in 1..Len(arr) |-> IF k = index + 1 THEN Absent ELSE arr[k]]
  ELSE [k \in DOMAIN arr \ {IF index < 0 THEN index ELSE 0} |->
          IF index >= 0 /\ k = index + 1 THEN Absent ELSE arr[k]]

\* Array.prototype.indexOf(x) !== -1
Includes(seq, x) == \E k \in 1..Len(seq) : seq[k] = x

\* add that takes the oldest available index instead of the newest.
Pointers_add_Fifo(tbl, obj) ==
  IF Len(tbl.unused) = 0
  THEN [pointers |-> ArrayPush(tbl.pointers, obj),
        unused   |-> tbl.unused,
        index    |-> ArrayLength(tbl.pointers)]
  ELSE [pointers |-> ArraySet(tbl.pointers, tbl.unused[1], obj),
        unused   |-> Tail(tbl.unused),
        index    |-> tbl.unused[1]]

\* add that returns the new length instead of the new length minus 1.
Pointers_add_OneBased(tbl, obj) ==
  IF Len(tbl.unused) = 0
  THEN [pointers |-> ArrayPush(tbl.pointers, obj),
        unused   |-> tbl.unused,
        index    |-> ArrayLength(tbl.pointers) + 1]
  ELSE [pointers |-> ArraySet(tbl.pointers, tbl.unused[Len(tbl.unused)], obj),
        unused   |-> SubSeq(tbl.unused, 1, Len(tbl.unused) - 1),
        index    |-> tbl.unused[Len(tbl.unused)]]

\* Pointers.add: the new table and the index returned.
Pointers_add(tbl, obj) ==
  IF Len(tbl.unused) = 0
  THEN [pointers |-> ArrayPush(tbl.pointers, obj),
        unused   |-> tbl.unused,
        index    |-> ArrayLength(tbl.pointers)]
  ELSE LET index == tbl.unused[Len(tbl.unused)]
       IN [pointers |-> ArraySet(tbl.pointers, index, obj),
           unused   |-> SubSeq(tbl.unused, 1, Len(tbl.unused) - 1),
           index    |-> index]

\* remove that records the index as available but keeps the slot.
Pointers_remove_KeepSlot(tbl, index) ==
  IF Includes(tbl.unused, index)
  THEN [pointers |-> tbl.pointers, unused |-> tbl.unused, threw |-> TRUE]
  ELSE [pointers |-> tbl.pointers,
        unused   |-> Append(tbl.unused, index),
        threw    |-> FALSE]

\* remove without the 'Already deleted' guard.
Pointers_remove_NoGuard(tbl, index) ==
  [pointers |-> ArrayDelete(tbl.pointers, index),
   unused   |-> Append(tbl.unused, index),
   threw    |-> FALSE]

\* remove that returns quietly when the index is already available.
Pointers_remove_Silent(tbl, index) ==
  IF Includes(tbl.unused, index)
  THEN [pointers |-> tbl.pointers, unused |-> tbl.unused, threw |-> FALSE]
  ELSE [pointers |-> ArrayDelete(tbl.pointers, index),
        unused   |-> Append(tbl.unused, index),
        threw    |-> FALSE]

\* Pointers.remove: the new table, and whether 'Already deleted' was thrown.
Pointers_remove(tbl, index) ==
  IF Includes(tbl.unused, index)
  THEN [pointers |-> tbl.pointers, unused |-> tbl.unused, threw |-> TRUE]
  ELSE [pointers |-> ArrayDelete(tbl.pointers, index),
        unused   |-> Append(tbl.unused, index),
        threw    |-> FALSE]

\* get that counts a negative index from the end of the array.
Pointers_get_FromEnd(tbl, index) ==
  IF index >= 0 /\ index < ArrayLength(tbl.pointers)
  THEN tbl.pointers[index + 1]
  ELSE IF index < 0 /\ ArrayLength(tbl.pointers) + index >= 0
       THEN tbl.pointers[ArrayLength(tbl.pointers) + index + 1]
       ELSE Absent

\* Pointers.get: the object, or Absent for a hole, an index past the end or
\* a negative index nothing was stored under.
Pointers_get(tbl, index) ==
  IF index >= 0 /\ index < ArrayLength(tbl.pointers)
  THEN tbl.pointers[index + 1]
  ELSE IF index < 0 /\ index \in DOMAIN tbl.pointers THEN tbl.pointers[index]
  ELSE Absent

\* size that counts the occupied slots only.
Pointers_size_Occupied(tbl) ==
  Cardinality({k \in 1..ArrayLength(tbl.pointers) :
                 tbl.pointers[k] /= Absent})

\* Pointers.size and Pointers.available
Pointers_size(tbl) == ArrayLength(tbl.pointers)
Pointers_available(tbl) == Len(tbl.unused)

\* The objects of test/pointers.ava.js: the n-th Counted made has id n - 1,
\* a method count, and no other member.
Counted_id(o) == o - 1
\* Counted.prototype.count
Counted_count(o, event, extra) == <<event, Counted_id(o) + extra>>
\* o[funcName] with its typeof; a number is held as a one-element tuple and
\* undefined as the empty tuple.
Member(o, funcName) ==
  CASE funcName = "count" -> [ftyp |-> "function", func |-> <<>>]
    [] funcName = "id" -> [ftyp |-> "number", func |-> <<Counted_id(o)>>]
    [] OTHER -> [ftyp |-> "undefined", func |-> <<>>]

\* The value a call produced: what was thrown, what was returned, and the
\* member invocations made.
NoThrow == [name |-> "none"]
NoResult == <<>>

\* TypeError(`Invalid object index: ${index}`)
InvalidIndex(index) ==
  [name |-> "TypeError", text |-> "Invalid object index: ", index |-> index]

\* The message without the function name.
NotAFunction_Anonymous(funcName, ftyp, func) ==
  [name |-> "TypeError", text |-> "Invalid object for function: ",
   funcName |-> "", ftyp |-> ftyp, func |-> func]

\* TypeError(`Invalid object for function: "${funcName}" ${ftyp} ${func}`)
NotAFunction(funcName, ftyp, func) ==
  [name |-> "TypeError", text |-> "Invalid object for function: ",
   funcName |-> funcName, ftyp |-> ftyp, func |-> func]

\* func.call(o, event, ...args) for the one method a Counted has.
FunctionCall(o, funcName, event, args) ==
  [threw |-> NoThrow,
   ret |-> Counted_count(o, event, args[1]),
   invoked |-> <<[this |-> o, funcName |-> funcName,
                  args |-> <<event>> \o args]>>]

\* call that skips the check of the object.
Pointers_callArgs_NoCheck(tbl, argv) ==
  LET o == Pointers_get(tbl, argv[3])
      m == Member(o, argv[1])
  IN IF o /= Absent /\ m.ftyp /= "function"
     THEN [threw |-> NotAFunction(argv[1], m.ftyp, m.func),
           ret |-> NoResult, invoked |-> <<>>]
     ELSE FunctionCall(o, argv[1], argv[2], SubSeq(argv, 4, Len(argv)))

\* Pointers.call(funcName, event, index, ...args), argv being the whole
\* argument list.
Pointers_callArgs(tbl, argv) ==
  LET funcName == argv[1]
      event == argv[2]
      index == argv[3]
      args == SubSeq(argv, 4, Len(argv))
      o == Pointers_get(tbl, index)
      m == Member(o, funcName)
  IN IF o = Absent
     THEN [threw |-> InvalidIndex(index), ret |-> NoResult, invoked |-> <<>>]
     ELSE IF m.ftyp /= "function"
     THEN [threw |-> NotAFunction(funcName, m.ftyp, m.func),
           ret |-> NoResult, invoked |-> <<>>]
     ELSE FunctionCall(o, funcName, event, args)

\* bind with the two fixed arguments exchanged.
Pointers_bind_Swapped(funcName, event) == <<event, funcName>>

\* Pointers.bind: this.call.bind(this, funcName, event), held as the
\* arguments it fixes.
Pointers_bind(funcName, event) == <<funcName, event>>

\* Calling the function bind returned: the fixed arguments come first.
BoundCall(tbl, bound, rest) == Pointers_callArgs(tbl, bound \o rest)

\* ------------------------------------------------ the expat engine
\* The engine is the WASM build of expat (lib/expat.js), reached only through
\* the wrappers of lib/index.js.  It is modelled on a small XML subset: start
\* tags with attributes, empty-element tags, end tags and character data.
\* A document is a sequence of bytes; names and texts are byte sequences.

LT == "<"
GT == ">"
SLASH == "/"
EQ == "="
QUOT == "\""
SP == " "
COLON == ":"

\* XML_Status
XML_STATUS_ERROR == 0
XML_STATUS_OK == 1
XML_STATUS_SUSPENDED == 2

\* XML_Error: the codes the subset can end with
XML_Error ==
  [NONE |-> 0, SYNTAX |-> 2, NO_ELEMENTS |-> 3, INVALID_TOKEN |-> 4,
   UNCLOSED_TOKEN |-> 5, TAG_MISMATCH |-> 7, DUPLICATE_ATTRIBUTE |-> 8,
   JUNK_AFTER_DOC_ELEMENT |-> 9, UNBOUND_PREFIX |-> 27,
   UNDECLARING_PREFIX |-> 28, SUSPENDED |-> 33, ABORTED |-> 35,
   FINISHED |-> 36, RESERVED_PREFIX_XML |-> 38,
   RESERVED_PREFIX_XMLNS |-> 39, RESERVED_NAMESPACE_URI |-> 40]

\* Position of the first b in seq at or after position from; 0 when none.
IndexFrom(seq, b, from) ==
  LET hits == {k \in from..Len(seq) : seq[k] = b}
  IN IF hits = {} THEN 0 ELSE CHOOSE k \in hits : \A j \in hits : k <= j

\* The fields of seq between separators sep.
RECURSIVE SplitOn(_, _)
SplitOn(seq, sep) ==
  LET k == IndexFrom(seq, sep, 1)
  IN IF k = 0 THEN <<seq>>
     ELSE <<SubSeq(seq, 1, k - 1)>> \o SplitOn(SubSeq(seq, k + 1, Len(seq)), sep)

IsName(seq) ==
  /\ Len(seq) > 0
  /\ \A k \in 1..Len(seq) : seq[k] \notin {LT, GT, SLASH, EQ, QUOT, SP}

\* typeof this.separator === 'string'; for the engine: the parser was made
\* by XML_ParserCreateNS with that separator.
IsStringSeparator(separator) == separator \notin {"NO_NAMESPACES", "otherSymbol"}

\* With namespace processing a name is a local name, or a prefix, a colon
\* and a local name.
PrefixOf(name) ==
  LET c == IndexFrom(name, COLON, 1)
  IN IF c = 0 THEN <<>> ELSE SubSeq(name, 1, c - 1)
LocalOf(name) == SubSeq(name, IndexFrom(name, COLON, 1) + 1, Len(name))
IsQName(seq) ==
  /\ IsName(seq)
  /\ Cardinality({k \in 1..Len(seq) : seq[k] = COLON}) <= 1
  /\ seq[1] /= COLON
  /\ seq[Len(seq)] /= COLON
NameOk(seq, ns) == IF ns THEN IsQName(seq) ELSE IsName(seq)

\* One attribute specification name="value".
AttrOk(field, ns) ==
  LET eq == IndexFrom(field, EQ, 1)
  IN /\ eq > 1
     /\ NameOk(SubSeq(field, 1, eq - 1), ns)
     /\ Len(field) >= eq + 2
     /\ field[eq + 1] = QUOT
     /\ field[Len(field)] = QUOT
     /\ \A k \in (eq + 2)..(Len(field) - 1) : field[k] \notin {LT, QUOT}
AttrName(field) == SubSeq(field, 1, IndexFrom(field, EQ, 1) - 1)
AttrValue(field) == SubSeq(field, IndexFrom(field, EQ, 1) + 2, Len(field) - 1)

\* The attributes of a tag as they are written: name, value, name,
\* value, ...
RECURSIVE AttrArray(_)
AttrArray(fields) ==
  IF Len(fields) = 0 THEN <<>>
  ELSE <<AttrName(fields[1]), AttrValue(fields[1])>> \o AttrArray(Tail(fields))

\* The markup between "<" and ">" classified; ns - the parser does
\* namespace processing.
ParseTag(body, ns) ==
  IF Len(body) > 0 /\ body[1] = SLASH
  THEN IF NameOk(Tail(body), ns)
       THEN [kind |-> "end", name |-> Tail(body), atts |-> <<>>]
       ELSE [kind |-> "bad", name |-> <<>>, atts |-> <<>>]
  ELSE LET empty  == Len(body) > 0 /\ body[Len(body)] = SLASH
           core   == IF empty THEN SubSeq(body, 1, Len(body) - 1) ELSE body
           fields == SplitOn(core, SP)
           specs  == Tail(fields)
       IN IF NameOk(fields[1], ns)
             /\ \A k \in 1..Len(specs) : AttrOk(specs[k], ns)
          THEN [kind |-> IF empty THEN "empty" ELSE "start",
                name |-> fields[1], atts |-> AttrArray(specs)]
          ELSE [kind |-> "bad", name |-> <<>>, atts |-> <<>>]

\* The name the engine hands to a handler for an element or attribute with
\* the given namespace URI, local name and prefix (empty when there is
\* none), after XML_ParserCreateNS with the separator and
\* XML_SetReturnNSTriplet(p, 1); a parser made by XML_ParserCreate hands
\* over the name as written.
EngineName(separator, uri, local, prefix) ==
  IF ~IsStringSeparator(separator)
  THEN IF prefix = <<>> THEN local ELSE prefix \o <<":">> \o local
  ELSE IF uri = <<>> THEN local
  ELSE IF prefix = <<>> THEN uri \o <<separator>> \o local
  ELSE uri \o <<separator>> \o local \o <<separator>> \o prefix

\* The prefixes and the namespace names the engine reserves.
XmlPrefix == <<"x", "m", "l">>
XmlnsPrefix == <<"x", "m", "l", "n", "s">>
XmlNamespace ==
  <<"h", "t", "t", "p", ":", "/", "/", "w", "w", "w", ".", "w", "3", ".",
    "o", "r", "g", "/", "X", "M", "L", "/", "1", "9", "9", "8", "/",
    "n", "a", "m", "e", "s", "p", "a", "c", "e">>
XmlnsNamespace ==
  <<"h", "t", "t", "p", ":", "/", "/", "w", "w", "w", ".", "w", "3", ".",
    "o", "r", "g", "/", "2", "0", "0", "0", "/", "x", "m", "l", "n", "s",
    "/">>

\* is_rfc3986_uri_char: the characters of the model's alphabet that may be
\* part of a URI; the default separator is none of them, a comma is one.
IsUriChar(c) == c \notin {"|", SP, LT, GT, QUOT}

\* addBinding: the error a namespace declaration xmlns:prefix="uri" (xmlns=
\* for the empty prefix) ends with, NONE when the prefix is bound.
AddBindingError(prefix, uri, separator) ==
  IF uri = <<>> /\ prefix /= <<>> THEN XML_Error.UNDECLARING_PREFIX
  ELSE IF prefix = XmlnsPrefix THEN XML_Error.RESERVED_PREFIX_XMLNS
  ELSE IF ~IsUriChar(separator) /\ Includes(uri, separator)
  THEN XML_Error.SYNTAX
  ELSE IF prefix = XmlPrefix /\ uri /= XmlNamespace
  THEN XML_Error.RESERVED_PREFIX_XML
  ELSE IF prefix /= XmlPrefix /\ uri \in {XmlNamespace, XmlnsNamespace}
  THEN XML_Error.RESERVED_NAMESPACE_URI
  ELSE XML_Error.NONE

\* The first pass of storeAtts over the attributes as written, in order: a
\* repeated name is an error, a namespace declaration is bound and reported
\* to the startNamespaceDecl handler, any other attribute is kept.  acc is
\* [seen, cbs, binds, kept, err]: err is the error the pass stopped with.
RECURSIVE StoreAtts(_, _, _)
StoreAtts(arr, separator, acc) ==
  IF Len(arr) = 0 \/ acc.err /= XML_Error.NONE THEN acc
  ELSE LET name   == arr[1]
           value  == arr[2]
           rest   == SubSeq(arr, 3, Len(arr))
           prefix == IF name = XmlnsPrefix THEN <<>> ELSE LocalOf(name)
           seen   == [acc EXCEPT !.seen = @ \cup {name}]
       IN IF name \in acc.seen
          THEN [acc EXCEPT !.err = XML_Error.DUPLICATE_ATTRIBUTE]
          ELSE IF /\ IsStringSeparator(separator)
                  /\ name = XmlnsPrefix \/ PrefixOf(name) = XmlnsPrefix
          THEN IF AddBindingError(prefix, value, separator) /= XML_Error.NONE
               THEN [acc EXCEPT
                       !.err = AddBindingError(prefix, value, separator)]
               ELSE StoreAtts(rest, separator,
                      [seen EXCEPT
                         !.cbs = Append(@, <<"startNamespaceDecl", prefix,
                                             value>>),
                         !.binds = Append(@, <<prefix, value>>)])
          ELSE StoreAtts(rest, separator,
                         [seen EXCEPT !.kept = @ \o <<name, value>>])

\* The namespace name a prefix is bound to where the bindings of scope are
\* in force, the innermost last; empty when it is bound to none.
Binding(scope, prefix) ==
  LET hits == {k \in 1..Len(scope) : scope[k][1] = prefix}
  IN IF hits /= {}
     THEN scope[CHOOSE k \in hits : \A j \in hits : j <= k][2]
     ELSE IF prefix = XmlPrefix THEN XmlNamespace
     ELSE <<>>

\* The second pass of storeAtts: the names of the prefixed attributes
\* expanded.  acc is [atts, seen, err].
RECURSIVE ExpandAtts(_, _, _, _)
ExpandAtts(kept, scope, separator, acc) ==
  IF Len(kept) = 0 \/ acc.err /= XML_Error.NONE THEN acc
  ELSE LET name   == kept[1]
           prefix == PrefixOf(name)
           uri    == Binding(scope, prefix)
           rest   == SubSeq(kept, 3, Len(kept))
       IN IF prefix = <<>>
          THEN ExpandAtts(rest, scope, separator,
                          [acc EXCEPT !.atts = @ \o <<name, kept[2]>>])
          ELSE IF uri = <<>>
          THEN [acc EXCEPT !.err = XML_Error.UNBOUND_PREFIX]
          ELSE IF <<uri, LocalOf(name)>> \in acc.seen
          THEN [acc EXCEPT !.err = XML_Error.DUPLICATE_ATTRIBUTE]
          ELSE ExpandAtts(rest, scope, separator,
                 [acc EXCEPT
                    !.atts = @ \o <<EngineName(separator, uri, LocalOf(name),
                                               prefix), kept[2]>>,
                    !.seen = @ \cup {<<uri, LocalOf(name)>>}])

\* The bindings in force inside the open elements, the innermost last.
RECURSIVE Inherited(_)
Inherited(stack) ==
  IF Len(stack) = 0 THEN <<>>
  ELSE stack[1].binds \o Inherited(Tail(stack))

\* freeBindings: the endNamespaceDecl callbacks for the bindings of a tag,
\* the last one made first.
EndBindings(binds) ==
  [k \in 1..Len(binds) |->
     <<"endNamespaceDecl", binds[Len(binds) + 1 - k][1]>>]

\* What a start tag or an empty-element tag leads to in the parser e: the
\* callbacks in the order they are made, the error the tag ends with after
\* them (NONE for none), the name handed to the handlers and the bindings
\* the tag made.  An empty-element tag gives up its bindings also when it
\* ends with an error.
TagPlan(e, tag) ==
  LET ns    == IsStringSeparator(e.sep)
      a     == StoreAtts(tag.atts, e.sep,
                         [seen |-> {}, cbs |-> <<>>, binds |-> <<>>,
                          kept |-> <<>>, err |-> XML_Error.NONE])
      scope == Inherited(e.stack) \o a.binds
      x     == IF ns
               THEN ExpandAtts(a.kept, scope, e.sep,
                               [atts |-> <<>>, seen |-> {}, err |-> a.err])
               ELSE [atts |-> a.kept, seen |-> {}, err |-> a.err]
      uri   == Binding(scope, PrefixOf(tag.name))
      name  == IF ns
               THEN EngineName(e.sep, uri, LocalOf(tag.name),
                               PrefixOf(tag.name))
               ELSE tag.name
      err   == IF x.err /= XML_Error.NONE THEN x.err
               ELSE IF ns /\ PrefixOf(tag.name) /= <<>> /\ uri = <<>>
               THEN XML_Error.UNBOUND_PREFIX
               ELSE XML_Error.NONE
  IN [cbs   |-> a.cbs
                  \o (IF err /= XML_Error.NONE THEN <<>>
                      ELSE IF tag.kind = "empty"
                      THEN << <<"startElement", name, x.atts>>,
                              <<"endElement", name>> >>
                      ELSE << <<"startElement", name, x.atts>> >>)
                  \o (IF tag.kind = "empty" THEN EndBindings(a.binds)
                      ELSE <<>>),
      err   |-> err,
      name  |-> name,
      binds |-> a.binds]

\* A parser as XML_ParserCreate returns it and parserInit leaves it.
\* parsing is XML_Parsing; buf holds the bytes given but not yet consumed;
\* consumed counts the bytes before buf; byteIndex is the position of the
\* current event (-1 when there is none).
\* sep is the namespace separator the parser was created with ("|" as new
\* XmlParser() asks for, NO_NAMESPACES after XML_ParserCreate); stack holds
\* the open elements, each with its name as written (raw), the name handed
\* to the handlers and the bindings its start tag made; tokenCalls counts
\* the callbacks made for the token the parser looked at last.
NewParser ==
  [userData |-> 0, handlers |-> FALSE, parsing |-> "INITIALIZED",
   buf |-> <<>>, consumed |-> 0, stack |-> <<>>, rootDone |-> FALSE,
   errorCode |-> XML_Error.NONE, byteIndex |-> -1, sep |-> "|",
   tokenCalls |-> 0]

\* XML_ParserReset: parserInit again; handlers and user data are cleared,
\* what XML_ParserCreate or XML_ParserCreateNS set is kept.
EngineReset(e) == [NewParser EXCEPT !.sep = e.sep]

\* XML_SetUserData
EngineSetUserData(e, userData) == [e EXCEPT !.userData = userData]

\* XML_Set*Handler for every event kind
EngineSetHandlers(e) == [e EXCEPT !.handlers = TRUE]

\* XML_StopParser: the parser after the call and the status returned.
EngineStop(e, resumable) ==
  IF e.parsing = "SUSPENDED"
  THEN IF resumable /= 0
       THEN [e |-> [e EXCEPT !.errorCode = XML_Error.SUSPENDED],
             ret |-> XML_STATUS_ERROR]
       ELSE [e |-> [e EXCEPT !.parsing = "FINISHED"], ret |-> XML_STATUS_OK]
  ELSE IF e.parsing = "FINISHED"
  THEN [e |-> [e EXCEPT !.errorCode = XML_Error.FINISHED],
        ret |-> XML_STATUS_ERROR]
  ELSE [e |-> [e EXCEPT !.parsing =
                 IF resumable /= 0 THEN "SUSPENDED" ELSE "FINISHED"],
        ret |-> XML_STATUS_OK]

\* XML_ErrorString
EngineErrorString(code) ==
  CASE code = XML_Error.SYNTAX -> "syntax error"
    [] code = XML_Error.NO_ELEMENTS -> "no element found"
    [] code = XML_Error.INVALID_TOKEN -> "not well-formed (invalid token)"
    [] code = XML_Error.UNCLOSED_TOKEN -> "unclosed token"
    [] code = XML_Error.TAG_MISMATCH -> "mismatched tag"
    [] code = XML_Error.DUPLICATE_ATTRIBUTE -> "duplicate attribute"
    [] code = XML_Error.UNBOUND_PREFIX -> "unbound prefix"
    [] code = XML_Error.UNDECLARING_PREFIX -> "must not undeclare prefix"
    [] code = XML_Error.RESERVED_PREFIX_XML ->
         "reserved prefix (xml) must not be undeclared or bound to another namespace name"
    [] code = XML_Error.RESERVED_PREFIX_XMLNS ->
         "reserved prefix (xmlns) must not be declared or undeclared"
    [] code = XML_Error.RESERVED_NAMESPACE_URI ->
         "prefix must not be bound to one of the reserved namespace names"
    [] code = XML_Error.JUNK_AFTER_DOC_ELEMENT -> "junk after document element"
    [] code = XML_Error.SUSPENDED -> "parser suspended"
    [] code = XML_Error.ABORTED -> "parsing aborted"
    [] code = XML_Error.FINISHED -> "parsing finished"
    [] OTHER -> ""

\* What happens inside the callbacks of one feed, as far as the engine can
\* tell: cbThrows - the trampoline raises (no object under the user-data
\* handle); stopAt - the number of the callback whose listener calls
\* stop(resumable), 0 for none.
NoStop(cbThrows) == [cbThrows |-> cbThrows, stopAt |-> 0, resumable |-> 0]

\* The engine invokes one registered callback c; r is the running result
\* [e, calls, threw].
Invoke(r, c, ctx) ==
  IF r.threw \/ ~r.e.handlers THEN r
  ELSE IF ctx.cbThrows
  THEN [e |-> [r.e EXCEPT !.tokenCalls = @ + 1],
        calls |-> Append(r.calls, c), threw |-> TRUE]
  ELSE IF Len(r.calls) + 1 = ctx.stopAt
  THEN [e |-> [EngineStop(r.e, ctx.resumable).e EXCEPT !.tokenCalls = @ + 1],
        calls |-> Append(r.calls, c), threw |-> FALSE]
  ELSE [e |-> [r.e EXCEPT !.tokenCalls = @ + 1],
        calls |-> Append(r.calls, c), threw |-> FALSE]

\* The callbacks of one token, made one after the other: a stop request of
\* a listener is looked at after the last of them only.
RECURSIVE InvokeAll(_, _, _)
InvokeAll(r, cbs, ctx) ==
  IF Len(cbs) = 0 THEN r
  ELSE InvokeAll(Invoke(r, cbs[1], ctx), Tail(cbs), ctx)

\* The white space the bytes begin with.
LeadingSpace(buf) ==
  IF \A k \in 1..Len(buf) : buf[k] = SP THEN Len(buf)
  ELSE (CHOOSE k \in 1..Len(buf) :
          /\ buf[k] /= SP
          /\ \A j \in 1..(k - 1) : buf[j] = SP) - 1

\* The processor loop of the engine over the bytes it holds: one token per
\* round, callbacks fired as the tokens complete.  White space outside the
\* root element goes to the default handler, which the binding always
\* registers.
RECURSIVE EngineRun(_, _, _, _)
EngineRun(e, final, calls, ctx) ==
  LET Fail(code) ==
        [e |-> [e EXCEPT !.errorCode = code, !.byteIndex = e.consumed,
                         !.tokenCalls = 0],
         calls |-> calls, ret |-> XML_STATUS_ERROR, threw |-> FALSE]
      Eat(n) ==
        [e EXCEPT !.buf = SubSeq(e.buf, n + 1, Len(e.buf)),
                  !.consumed = e.consumed + n,
                  !.byteIndex = e.consumed,
                  !.tokenCalls = 0]
      \* after the callbacks of a token: raise, fail, suspend, abort or go on
      Then(r, err) ==
        IF r.threw
        THEN [e |-> [e EXCEPT !.byteIndex = e.consumed,
                              !.tokenCalls = r.e.tokenCalls],
              calls |-> r.calls, ret |-> XML_STATUS_ERROR, threw |-> TRUE]
        ELSE IF err /= XML_Error.NONE
        THEN [e |-> [e EXCEPT !.errorCode = err, !.byteIndex = e.consumed,
                              !.parsing = r.e.parsing,
                              !.tokenCalls = r.e.tokenCalls],
              calls |-> r.calls, ret |-> XML_STATUS_ERROR, threw |-> FALSE]
        ELSE IF r.e.parsing = "SUSPENDED"
        THEN [e |-> r.e, calls |-> r.calls, ret |-> XML_STATUS_SUSPENDED,
              threw |-> FALSE]
        ELSE IF r.e.parsing = "FINISHED"
        THEN [e |-> [r.e EXCEPT !.errorCode = XML_Error.ABORTED],
              calls |-> r.calls, ret |-> XML_STATUS_ERROR, threw |-> FALSE]
        ELSE EngineRun(r.e, final, r.calls, ctx)
      Start(e1) == [e |-> e1, calls |-> calls, threw |-> FALSE]
      \* a start tag or an empty-element tag with its plan
      Open(e1, tag, plan) ==
        Then(InvokeAll(
               Start(IF tag.kind = "empty"
                     THEN [e1 EXCEPT !.rootDone = (Len(e.stack) = 0)]
                     ELSE [e1 EXCEPT !.stack =
                             Append(@, [raw |-> tag.name, name |-> plan.name,
                                        binds |-> plan.binds])]),
               plan.cbs, ctx),
             plan.err)
  IN
  IF Len(e.buf) = 0
  THEN IF ~final
       THEN [e |-> e, calls |-> calls, ret |-> XML_STATUS_OK, threw |-> FALSE]
       ELSE IF ~e.rootDone THEN Fail(XML_Error.NO_ELEMENTS)
       ELSE [e |-> [e EXCEPT !.parsing = "FINISHED"], calls |-> calls,
             ret |-> XML_STATUS_OK, threw |-> FALSE]
  ELSE IF e.buf[1] = LT
  THEN LET gt == IndexFrom(e.buf, GT, 1)
       IN IF gt = 0
          THEN IF final THEN Fail(XML_Error.UNCLOSED_TOKEN)
               ELSE [e |-> e, calls |-> calls, ret |-> XML_STATUS_OK,
                     threw |-> FALSE]
          ELSE
          LET tag  == ParseTag(SubSeq(e.buf, 2, gt - 1),
                               IsStringSeparator(e.sep))
              e1   == Eat(gt)
              open == Len(e.stack)
          IN CASE tag.kind = "bad" -> Fail(XML_Error.INVALID_TOKEN)
               [] tag.kind \in {"start", "empty"} ->
                    IF e.rootDone THEN Fail(XML_Error.JUNK_AFTER_DOC_ELEMENT)
                    ELSE Open(e1, tag, TagPlan(e, tag))
               [] tag.kind = "end" ->
                    IF open = 0
                    THEN Fail(IF e.rootDone
                              THEN XML_Error.JUNK_AFTER_DOC_ELEMENT
                              ELSE XML_Error.INVALID_TOKEN)
                    ELSE IF e.stack[open].raw /= tag.name
                    THEN Fail(XML_Error.TAG_MISMATCH)
                    ELSE Then(InvokeAll(
                                Start([e1 EXCEPT
                                         !.stack = SubSeq(@, 1, open - 1),
                                         !.rootDone = (open = 1)]),
                                << <<"endElement", e.stack[open].name>> >>
                                  \o EndBindings(e.stack[open].binds),
                                ctx),
                              XML_Error.NONE)
  ELSE IF Len(e.stack) = 0
  THEN IF e.buf[1] = SP
       THEN Then(Invoke(Start(Eat(LeadingSpace(e.buf))),
                        <<"default",
                          SubSeq(e.buf, 1, LeadingSpace(e.buf)),
                          LeadingSpace(e.buf)>>, ctx),
                 XML_Error.NONE)
       ELSE Fail(IF e.rootDone THEN XML_Error.JUNK_AFTER_DOC_ELEMENT
                 ELSE XML_Error.SYNTAX)
  ELSE LET lt   == IndexFrom(e.buf, LT, 1)
           n    == IF lt = 0 THEN Len(e.buf) ELSE lt - 1
       IN Then(Invoke(Start(Eat(n)),
                      <<"characterData", SubSeq(e.buf, 1, n), n>>, ctx),
               XML_Error.NONE)

\* XML_Parse of the engine: one buffer of bytes with its final flag.
EngineParse(e, chunk, isFinal, calls, ctx) ==
  IF e.parsing = "SUSPENDED"
  THEN [e |-> [e EXCEPT !.errorCode = XML_Error.SUSPENDED], calls |-> calls,
        ret |-> XML_STATUS_ERROR, threw |-> FALSE]
  ELSE IF e.parsing = "FINISHED"
  THEN [e |-> [e EXCEPT !.errorCode = XML_Error.FINISHED], calls |-> calls,
        ret |-> XML_STATUS_ERROR, threw |-> FALSE]
  ELSE IF e.errorCode /= XML_Error.NONE
  THEN [e |-> e, calls |-> calls, ret |-> XML_STATUS_ERROR, threw |-> FALSE]
  ELSE EngineRun([e EXCEPT !.parsing = "PARSING", !.buf = @ \o chunk],
                 isFinal /= 0, calls, ctx)

\* ---------------------------------------------------- lib/index.js
CHUNK_SIZE == 4096

\* A sub-chunk that leaves out its last byte.
SubChunk_Short(str, offset) ==
  SubSeq(str, offset + 1, Min(offset + CHUNK_SIZE - 1, Len(str)))

\* str.slice(offset, offset + CHUNK_SIZE) (line 419)
SubChunk(str, offset) ==
  SubSeq(str, offset + 1, Min(offset + CHUNK_SIZE, Len(str)))

\* A sub-chunk that ends exactly at the end of the input not taken as last.
LastChunk_Strict(offset, len) == IF offset + CHUNK_SIZE > len THEN 1 ELSE 0

\* Number((offset + CHUNK_SIZE) >= len) (line 420)
LastChunk(offset, len) == IF offset + CHUNK_SIZE >= len THEN 1 ELSE 0

\* last && isFinal (line 425)
FinalFlag(last, isFinal) == IF last = 0 THEN 0 ELSE isFinal

\* The for loop of XmlParser.XML_Parse from the given offset; r is the
\* running result [e, calls, ret, threw, fed], fed the sub-chunks handed to
\* the engine so far.
RECURSIVE XML_ParseLoop(_, _, _, _, _)
RECURSIVE XML_ParseNext(_, _, _, _, _)

\* The end of one round (lines 432-435 and the loop condition): r1 is the
\* running result after the engine took the sub-chunk at offset.
XML_ParseNext(r1, str, isFinal, offset, ctx) ==
  IF r1.threw \/ r1.ret = 0 THEN r1
  ELSE IF offset + CHUNK_SIZE < Len(str)
  THEN XML_ParseLoop(r1, str, isFinal, offset + CHUNK_SIZE, ctx)
  ELSE r1

\* One ccall of XML_Parse (lines 421-426): the engine's result res with the
\* sub-chunk, its flag and the status returned added to the log.
XML_ParseCall(res, fed, chunk, flag) ==
  [e |-> res.e, calls |-> res.calls, ret |-> res.ret, threw |-> res.threw,
   fed |-> Append(fed, [chunk |-> chunk, isFinal |-> flag,
                        ret |-> res.ret])]

XML_ParseLoop(r, str, isFinal, offset, ctx) ==
  LET chunk == SubChunk(str, offset)
      flag  == FinalFlag(LastChunk(offset, Len(str)), isFinal)
  IN XML_ParseNext(
       XML_ParseCall(EngineParse(r.e, chunk, flag, r.calls, ctx),
                     r.fed, chunk, flag),
       str, isFinal, offset, ctx)

\* XmlParser.XML_Parse (static): the input cut into sub-chunks of at most
\* CHUNK_SIZE bytes, each handed to the engine.
XML_Parse(e, str, isFinal, ctx) ==
  XML_ParseLoop([e |-> e, calls |-> <<>>, ret |-> 0, threw |-> FALSE,
                 fed |-> <<>>], str, isFinal, 0, ctx)

\* The object the first word of the parser struct leads to, and the
\* XmlParseError built from a parser (lines 28-38).
XML_GetUserData(e) == e.userData
XML_GetCurrentLineNumber(e) == 1
XML_GetCurrentColumnNumber(e) == Max(e.byteIndex, 0)
XmlParseError(e) ==
  [code       |-> e.errorCode,
   xmlMessage |-> EngineErrorString(e.errorCode),
   line       |-> XML_GetCurrentLineNumber(e),
   column     |-> XML_GetCurrentColumnNumber(e),
   byteOffset |-> e.byteIndex]

NoError ==
  [code |-> 0, xmlMessage |-> "", line |-> 0, column |-> 0, byteOffset |-> 0]

\* XmlParser._registerHandlers
RegisterHandlers(e) == EngineSetHandlers(e)

\* XmlParser.emit on instance t: the listeners of the event, then the
\* listeners of '*'.
Emit(t, eventName, args) ==
  << [to |-> t, on |-> eventName, args |-> args],
     [to |-> t, on |-> "*", args |-> <<eventName>> \o args] >>

\* The attribs object _startElement builds from the name/value array: a
\* later pair for the same name overwrites an earlier one.
Attribs(arr) ==
  LET pairs == 1..(Len(arr) \div 2)
      names == {arr[2 * k - 1] : k \in pairs}
  IN [n \in names |->
        arr[2 * (CHOOSE k \in pairs :
                   /\ arr[2 * k - 1] = n
                   /\ \A j \in pairs : arr[2 * j - 1] = n => j <= k)]]

\* XmlParser._startElement, _characterData and _simpleEvent on instance t.
StartElementHandler(t, c) == Emit(t, c[1], <<c[2], Attribs(c[3])>>)
CharacterDataHandler(t, c) == Emit(t, c[1], <<SubSeq(c[2], 1, c[3])>>)
\* XmlParser._default (lines 828-830)
DefaultHandler(t, c) == Emit(t, c[1], <<SubSeq(c[2], 1, c[3])>>)
SimpleEventHandler(t, c) == Emit(t, c[1], Tail(c))

\* Pointers.call for one engine callback c with user data h: the listener
\* invocations it leads to (none when it raises).
Pointers_call(tbl, h, c) ==
  LET t == Pointers_get(tbl, h)
  IN IF t = Absent THEN <<>>
     ELSE CASE c[1] = "startElement" -> StartElementHandler(t, c)
            [] c[1] = "characterData" -> CharacterDataHandler(t, c)
            [] c[1] = "default" -> DefaultHandler(t, c)
            [] OTHER -> SimpleEventHandler(t, c)

\* The callbacks forwarded last first.
RECURSIVE DispatchAll_Reversed(_, _, _)
DispatchAll_Reversed(tbl, h, calls) ==
  IF Len(calls) = 0 THEN <<>>
  ELSE DispatchAll_Reversed(tbl, h, Tail(calls))
         \o Pointers_call(tbl, h, calls[1])

\* The trampolines forwarding the engine's callbacks of one feed, in the
\* order the engine made them.
RECURSIVE DispatchAll(_, _, _)
DispatchAll(tbl, h, calls) ==
  IF Len(calls) = 0 THEN <<>>
  ELSE Pointers_call(tbl, h, calls[1]) \o DispatchAll(tbl, h, Tail(calls))

\* The engine heap after XML_ParserFree.
Freed == [parsing |-> "FREED"]

\* XmlParser.reset on a live parser struct (lines 1292-1293).
XmlParser_reset(e) == RegisterHandlers(EngineReset(e))

\* The XmlParseError parse() builds when the feed failed (line 1275).
ParseErrorOf(e) == XmlParseError(e)

\* parse() that also resets after a suspended feed.
ResetAfter_AlsoSuspended(res, final) ==
  res = 0 \/ res = 2 \/ (res = 1 /\ final = 1)

\* parse() resetting only after a successful final feed.
ResetAfter_OnlyFinal(res, final) == res = 1 /\ final = 1

\* parse() resetting after every successful feed, final or not.
ResetAfter_Always(res, final) == res = 0 \/ res = 1

\* Whether parse() resets the parser after XML_Parse returned res
\* (lines 1274-1280).
ResetAfter(res, final) == res = 0 \/ (res = 1 /\ final = 1)

\* Listeners that never call stop().
Quiet == [stopAt |-> 0, resumable |-> 0]

\* The engine calls XmlParseError makes (lines 30-39).
ErrorQueries ==
  <<"XML_GetErrorCode", "XML_ErrorString", "XML_GetCurrentLineNumber",
    "XML_GetCurrentColumnNumber", "XML_GetCurrentByteIndex", "XML_GetBase">>
\* The engine calls reset() makes.
ResetCalls == <<"XML_ParserReset", "XML_SetHandler">>

\* parse() that returns the status of a failed feed instead of raising.
XmlParser_parseResult_Returns(tbl, e, final, r) ==
  [e         |-> IF ~r.threw /\ ResetAfter(r.ret, final)
                 THEN XmlParser_reset(r.e) ELSE r.e,
   threw     |-> IF r.threw THEN "TypeError"
                 ELSE "none",
   ret       |-> r.ret,
   error     |-> IF ~r.threw /\ r.ret = 0 THEN ParseErrorOf(r.e) ELSE NoError,
   atFailure |-> r.e,
   didReset  |-> ~r.threw /\ ResetAfter(r.ret, final),
   calls     |-> r.calls,
   fed       |-> r.fed,
   engineCalls |-> [k \in 1..Len(r.fed) |-> "XML_Parse"]
                   \o (IF ~r.threw /\ r.ret = 0 THEN ErrorQueries ELSE <<>>)
                   \o (IF ~r.threw /\ ResetAfter(r.ret, final)
                       THEN ResetCalls ELSE <<>>),
   delivered |-> DispatchAll(tbl, XML_GetUserData(e),
                             IF r.threw
                             THEN SubSeq(r.calls, 1, Len(r.calls) - 1)
                             ELSE r.calls)]

\* What parse() does with r, the outcome of XmlParser.XML_Parse on the
\* parser struct e (lines 1274-1281), and the listener invocations made
\* on the way.
XmlParser_parseResult(tbl, e, final, r) ==
  [e         |-> IF ~r.threw /\ ResetAfter(r.ret, final)
                 THEN XmlParser_reset(r.e) ELSE r.e,
   threw     |-> IF r.threw THEN "TypeError"
                 ELSE IF r.ret = 0 THEN "XmlParseError" ELSE "none",
   ret       |-> r.ret,
   error     |-> IF ~r.threw /\ r.ret = 0 THEN ParseErrorOf(r.e) ELSE NoError,
   atFailure |-> r.e,
   didReset  |-> ~r.threw /\ ResetAfter(r.ret, final),
   calls     |-> r.calls,
   fed       |-> r.fed,
   engineCalls |-> [k \in 1..Len(r.fed) |-> "XML_Parse"]
                   \o (IF ~r.threw /\ r.ret = 0 THEN ErrorQueries ELSE <<>>)
                   \o (IF ~r.threw /\ ResetAfter(r.ret, final)
                       THEN ResetCalls ELSE <<>>),
   delivered |-> DispatchAll(tbl, XML_GetUserData(e),
                             IF r.threw
                             THEN SubSeq(r.calls, 1, Len(r.calls) - 1)
                             ELSE r.calls)]

\* XmlParser.parse on a parser struct e (this.parser is set): the struct
\* afterwards and the outcome.  listeners says what the listeners do; a
\* callback raises when no object is under the parser's user-data handle.
XmlParser_parse(tbl, e, chunk, final, listeners) ==
  XmlParser_parseResult(tbl, e, final,
    XML_Parse(e, chunk, final,
              [cbThrows  |-> Pointers_get(tbl, XML_GetUserData(e)) = Absent,
               stopAt    |-> listeners.stopAt,
               resumable |-> listeners.resumable]))

Table == [pointers |-> pointers, unused |-> unused]

\* ------------------------------------------- Handle Table on its own
\* live holds the handles add returned that were not removed since.  hist
\* keeps, of the calls made so far: removed, the handles that were live when
\* remove took them and that add has not returned again since; stored, the
\* object add was given for each live handle; dense, the number of add calls
\* made as long as remove was never called, and -1 from then on.
NoCall == [op |-> "none"]

InitPtr ==
  /\ pointers = <<>>
  /\ unused = <<>>
  /\ live = {}
  /\ lastCall = NoCall
  /\ inst = <<>>
  /\ eng = <<>>
  /\ hist = [removed |-> {}, stored |-> [h \in {} |-> Absent], dense |-> 0]

\* p.add(obj)
PtrAdd(obj) ==
  /\ Len(unused) > 0 \/ ArrayLength(pointers) < MaxSize
  /\ LET r == Pointers_add(Table, obj)
     IN /\ pointers' = r.pointers
        /\ unused' = r.unused
        /\ live' = live \cup {r.index}
        /\ hist' = [removed |-> hist.removed \ {r.index},
                    stored |-> [h \in live \cup {r.index} |->
                                  IF h = r.index THEN obj ELSE hist.stored[h]],
                    dense |-> IF hist.dense < 0 THEN -1 ELSE hist.dense + 1]
        /\ lastCall' = [op |-> "add", obj |-> obj, ret |-> r.index,
                        liveBefore |-> live, removedBefore |-> hist.removed,
                        addsBefore |-> hist.dense, tableBefore |-> Table]
        /\ UNCHANGED <<inst, eng>>

\* p.remove(index), for any integer index
PtrRemove(index) ==
  LET r == Pointers_remove(Table, index)
      gone == ~r.threw /\ index \in live
  IN /\ pointers' = r.pointers
     /\ unused' = r.unused
     /\ live' = IF r.threw THEN live ELSE live \ {index}
     /\ hist' = [removed |-> IF gone THEN hist.removed \cup {index}
                             ELSE hist.removed,
                 stored |-> IF gone
                            THEN [h \in live \ {index} |-> hist.stored[h]]
                            ELSE hist.stored,
                 dense |-> -1]
     /\ lastCall' = [op |-> "remove", index |-> index, threw |-> r.threw,
                     liveBefore |-> live, removedBefore |-> hist.removed,
                     tableBefore |-> Table]
     /\ UNCHANGED <<inst, eng>>

\* p.get(index), for any integer index: a plain array read, which JavaScript
\* answers with undefined for a hole, a negative index or one past the end.
PtrGet(index) ==
  /\ lastCall' = [op |-> "get", index |-> index, threw |-> FALSE,
                  ret |-> Pointers_get(Table, index),
                  liveBefore |-> live, removedBefore |-> hist.removed,
                  tableBefore |-> Table]
  /\ UNCHANGED <<pointers, unused, live, hist, inst, eng>>

\* The values the calls of test/pointers.ava.js are made with: the method
\* of Counted, a data member, a name no Counted has; one event name; a
\* number for count to add.
FuncNames == {"count", "id", "mumps"}
EventNames == {"counted"}
Extras == {0, 2}
\* Integers tried as handles by get and call.
Indices == -1..(MaxIndex + 1)

\* The call p.call(funcName, event, index, ...args), or the same through
\* p.bind(funcName, event)(index, ...args), ended as r says.
PtrCalled(via, funcName, event, index, args, r) ==
  /\ lastCall' = [op |-> "call", via |-> via, funcName |-> funcName,
                  event |-> event, index |-> index, args |-> args,
                  threw |-> r.threw, ret |-> r.ret, invoked |-> r.invoked,
                  liveBefore |-> live, tableBefore |-> Table]
  /\ UNCHANGED <<pointers, unused, live, hist, inst, eng>>

\* p.call(funcName, event, index, extra)
PtrCall(funcName, event, index, extra) ==
  PtrCalled("call", funcName, event, index, <<extra>>,
            Pointers_callArgs(Table, <<funcName, event, index, extra>>))

\* p.bind(funcName, event)(index, extra)
PtrBind(funcName, event, index, extra) ==
  PtrCalled("bind", funcName, event, index, <<extra>>,
            BoundCall(Table, Pointers_bind(funcName, event),
                      <<index, extra>>))

NextPtr ==
  \/ \E obj \in Objs : PtrAdd(obj)
  \/ \E index \in 0..MaxIndex : PtrRemove(index)
  \/ \E index \in Indices : PtrGet(index)
  \/ \E funcName \in FuncNames, event \in EventNames, index \in Indices,
        extra \in Extras : PtrCall(funcName, event, index, extra)
  \/ \E funcName \in FuncNames, event \in EventNames, index \in Indices,
        extra \in Extras : PtrBind(funcName, event, index, extra)

SpecPtr == InitPtr /\ [][NextPtr]_vars

\* C1: the handle returned by add differs from every handle that is live at
\* the moment of the call (returned by an earlier add and not removed since).
C1_AddNeverCollides ==
  lastCall.op = "add" => lastCall.ret \notin lastCall.liveBefore

\* C1 witness: an add that ran while other handles were live, after a remove
\* made an index available.
C1_Witness ==
  /\ lastCall.op = "add"
  /\ lastCall.liveBefore /= {}
  /\ lastCall.ret < Len(pointers) - 1

\* C20: remove(h) on a handle that was removed and that add has not returned
\* again since raises 'Already deleted' and leaves the live entries and the
\* available indices as they were.
C20_RemoveTwiceFails ==
  (lastCall.op = "remove" /\ lastCall.index \in lastCall.removedBefore) =>
    /\ lastCall.threw
    /\ Table = lastCall.tableBefore
    /\ live = lastCall.liveBefore

\* C20 witness: a handle removed twice while another handle is live: the
\* second remove raised and the table still holds the other entry and the
\* one available index.
C20_Witness ==
  /\ lastCall.op = "remove"
  /\ lastCall.index \in lastCall.removedBefore
  /\ lastCall.threw
  /\ lastCall.liveBefore /= {}
  /\ unused = <<lastCall.index>>
  /\ Table = lastCall.tableBefore

\* A handle no add call has returned so far, as seen before the last call.
NeverIssued(index) ==
  index \notin (lastCall.liveBefore \cup lastCall.removedBefore)

\* C21: remove(h) for an integer h that no add call has ever returned raises
\* an error and does not make h available for reuse.
C21_RemoveNeverIssuedFails ==
  (lastCall.op = "remove" /\ NeverIssued(lastCall.index)) =>
    /\ lastCall.threw
    /\ ~Includes(unused, lastCall.index)

\* C22: after remove(h) on a live handle h, get(h) returns absent until an
\* add returns h again, get of every other live handle still returns the
\* object it was added with, and when h is the only available index the
\* next add returns h and the table keeps its length.
C22_RemoveFreesOnlyItsSlot ==
  /\ (lastCall.op = "remove" /\ lastCall.index \in lastCall.liveBefore) =>
       /\ ~lastCall.threw
       /\ Pointers_get(Table, lastCall.index) = Absent
       /\ \A g \in lastCall.liveBefore \ {lastCall.index} :
            Pointers_get(Table, g) = hist.stored[g]
  /\ (lastCall.op = "get" /\ lastCall.index \in lastCall.removedBefore) =>
       lastCall.ret = Absent
  /\ (lastCall.op = "get" /\ lastCall.index \in lastCall.liveBefore) =>
       lastCall.ret = hist.stored[lastCall.index]
  /\ (/\ lastCall.op = "add"
      /\ Len(lastCall.tableBefore.unused) = 1
      /\ lastCall.tableBefore.unused[1] \in lastCall.removedBefore) =>
       /\ lastCall.ret = lastCall.tableBefore.unused[1]
       /\ Len(pointers) = Len(lastCall.tableBefore.pointers)

\* C22 witness: with another handle live, the one removed handle is the only
\* available index and add has returned it, the table as long as before.
C22_Witness ==
  /\ lastCall.op = "add"
  /\ lastCall.liveBefore /= {}
  /\ lastCall.tableBefore.unused = <<lastCall.ret>>
  /\ lastCall.ret \in lastCall.removedBefore
  /\ Len(pointers) = Len(lastCall.tableBefore.pointers)
  /\ \A g \in live : Pointers_get(Table, g) = hist.stored[g]

\* C23: on an empty table, as long as remove is never called, the n-th add
\* call returns n - 1: the handles come out as 0, 1, 2, ... in that order.
C23_AddsAreDense ==
  (lastCall.op = "add" /\ lastCall.addsBefore >= 0) =>
    /\ lastCall.ret = lastCall.addsBefore
    /\ lastCall.liveBefore = 0..(lastCall.addsBefore - 1)
    /\ Len(pointers) = lastCall.addsBefore + 1

\* C23 witness: the third add of a run without remove returned 2.
C23_Witness ==
  /\ lastCall.op = "add"
  /\ lastCall.addsBefore = 2
  /\ lastCall.ret = 2
  /\ live = {0, 1, 2}

\* The available indices before the last call, all of them handles that
\* were live when removed.
RemovedAvailable ==
  {lastCall.tableBefore.unused[k] :
     k \in 1..Len(lastCall.tableBefore.unused)}

\* C24 (as stated): when several removed indices are available add returns
\* the lowest of them; when none is available it appends and returns the new
\* length minus 1.
C24_AddReusesLowest ==
  lastCall.op = "add" =>
    IF lastCall.tableBefore.unused = <<>>
    THEN /\ Len(pointers) = Len(lastCall.tableBefore.pointers) + 1
         /\ lastCall.ret = Len(pointers) - 1
    ELSE RemovedAvailable \subseteq lastCall.removedBefore =>
           /\ lastCall.ret \in RemovedAvailable
           /\ \A h \in RemovedAvailable : lastCall.ret <= h

\* C24 (amended): when removed indices are available add returns the one
\* removed most recently and takes it off the available indices; when none
\* is available it appends and returns the new length minus 1.
C24_AddReusesLatest ==
  lastCall.op = "add" =>
    IF lastCall.tableBefore.unused = <<>>
    THEN /\ Len(pointers) = Len(lastCall.tableBefore.pointers) + 1
         /\ lastCall.ret = Len(pointers) - 1
         /\ unused = <<>>
    ELSE /\ lastCall.ret =
              lastCall.tableBefore.unused[Len(lastCall.tableBefore.unused)]
         /\ unused = SubSeq(lastCall.tableBefore.unused, 1,
                            Len(lastCall.tableBefore.unused) - 1)
         /\ Pointers_get(Table, lastCall.ret) = lastCall.obj

\* C24 witness: two removed handles were available, the lower one removed
\* first, and add returned the higher one.
C24_Witness ==
  /\ lastCall.op = "add"
  /\ Len(lastCall.tableBefore.unused) = 2
  /\ RemovedAvailable \subseteq lastCall.removedBefore
  /\ lastCall.tableBefore.unused[1] < lastCall.tableBefore.unused[2]
  /\ lastCall.ret = lastCall.tableBefore.unused[2]

\* C25: get(h) never raises and never changes the table; it returns the
\* stored object when h is live and absent for every other integer h:
\* removed, never issued, negative or past the end.
C25_GetIsPureLookup ==
  lastCall.op = "get" =>
    /\ ~lastCall.threw
    /\ Table = lastCall.tableBefore
    /\ live = lastCall.liveBefore
    /\ IF lastCall.index \in live
       THEN lastCall.ret = hist.stored[lastCall.index]
       ELSE lastCall.ret = Absent

\* C25 witness: a get with a negative index, while the table holds an entry
\* and a hole, returned absent.
C25_Witness ==
  /\ lastCall.op = "get"
  /\ lastCall.index < 0
  /\ lastCall.ret = Absent
  /\ live /= {}
  /\ hist.removed /= {}

\* C26: call(m, e, h, ...args) on a handle h that is not live raises the
\* 'Invalid object index' TypeError, whose message carries h, and invokes
\* no method of any object.
C26_CallOnDeadHandleFails ==
  (lastCall.op = "call" /\ lastCall.index \notin lastCall.liveBefore) =>
    /\ lastCall.threw.name = "TypeError"
    /\ lastCall.threw.text = "Invalid object index: "
    /\ lastCall.threw.index = lastCall.index
    /\ lastCall.invoked = <<>>

\* C26 witness: a call on a removed handle, another handle being live, that
\* raised the error carrying the handle.
C26_Witness ==
  /\ lastCall.op = "call"
  /\ lastCall.index \in hist.removed
  /\ live /= {}
  /\ lastCall.threw = InvalidIndex(lastCall.index)
  /\ lastCall.invoked = <<>>

\* The last call was made on a live handle whose object has no callable
\* member of the name given.
CallOfNonFunction ==
  /\ lastCall.op = "call"
  /\ lastCall.index \in lastCall.liveBefore
  /\ Member(hist.stored[lastCall.index], lastCall.funcName).ftyp
       /= "function"

\* C27 (as stated): call(m, e, h, ...args) on a live handle whose object has
\* no callable member m raises a not-a-function error whose message names
\* both the method m and the handle h.
C27_ErrorNamesMethodAndHandle ==
  CallOfNonFunction =>
    /\ lastCall.threw.name = "TypeError"
    /\ lastCall.threw.text = "Invalid object for function: "
    /\ lastCall.threw.funcName = lastCall.funcName
    /\ "index" \in DOMAIN lastCall.threw
    /\ lastCall.threw.index = lastCall.index

\* C27 (amended): the call raises the 'Invalid object for function'
\* TypeError, whose message names the method m, the type of the member
\* found and its value, and invokes nothing; the handle is not part of the
\* message.
C27_ErrorNamesMethodAndMember ==
  CallOfNonFunction =>
    /\ lastCall.threw.name = "TypeError"
    /\ lastCall.threw.text = "Invalid object for function: "
    /\ lastCall.threw.funcName = lastCall.funcName
    /\ lastCall.threw.ftyp =
         Member(hist.stored[lastCall.index], lastCall.funcName).ftyp
    /\ lastCall.threw.func =
         Member(hist.stored[lastCall.index], lastCall.funcName).func
    /\ "index" \notin DOMAIN lastCall.threw
    /\ lastCall.invoked = <<>>

\* C27 witness: call('mumps', ...) on a live handle raised the error naming
\* 'mumps' and the type undefined.
C27_Witness ==
  /\ CallOfNonFunction
  /\ lastCall.funcName = "mumps"
  /\ lastCall.threw = NotAFunction("mumps", "undefined", <<>>)

\* C28: for a live handle h whose object has a callable member m, both
\* call(m, e, h, ...args) and bind(m, e)(h, ...args) invoke that member
\* exactly once, on the stored object, with the arguments (e, ...args), and
\* return what it returned.
C28_CallAndBindInvokeOnce ==
  (/\ lastCall.op = "call"
   /\ lastCall.index \in lastCall.liveBefore
   /\ Member(hist.stored[lastCall.index], lastCall.funcName).ftyp
        = "function") =>
    /\ lastCall.threw = NoThrow
    /\ lastCall.invoked =
         <<[this |-> hist.stored[lastCall.index],
            funcName |-> lastCall.funcName,
            args |-> <<lastCall.event>> \o lastCall.args]>>
    /\ lastCall.ret = Counted_count(hist.stored[lastCall.index],
                                    lastCall.event, lastCall.args[1])
    /\ Table = lastCall.tableBefore

\* C28 witness: bind('count', 'counted')(h, 2) on the second object, stored
\* under a handle other than 0, returned ['counted', 3].
C28_Witness ==
  /\ lastCall.op = "call"
  /\ lastCall.via = "bind"
  /\ lastCall.index \in live
  /\ lastCall.index > 0
  /\ hist.stored[lastCall.index] = 2
  /\ lastCall.funcName = "count"
  /\ lastCall.ret = <<"counted", 3>>
  /\ Len(lastCall.invoked) = 1

\* The Handle Table used as XmlParser uses it: remove is only ever called
\* with a handle that is live.
PtrRemoveLive(index) == index \in live /\ PtrRemove(index)

NextLive ==
  \/ \E obj \in Objs : PtrAdd(obj)
  \/ \E index \in 0..MaxIndex : PtrRemoveLive(index)

SpecLive == InitPtr /\ [][NextLive]_vars

\* C38: as long as remove is applied to live handles only, no call makes
\* size smaller, available never exceeds size, the live handles number size
\* minus available, and add makes size larger, by exactly one, only when no
\* removed index was available.
C38_SizeAccounts ==
  /\ Pointers_available(Table) <= Pointers_size(Table)
  /\ Cardinality(live) = Pointers_size(Table) - Pointers_available(Table)
  /\ lastCall.op \in {"add", "remove"} =>
       Pointers_size(Table) >= Pointers_size(lastCall.tableBefore)
  /\ lastCall.op = "remove" =>
       Pointers_size(Table) = Pointers_size(lastCall.tableBefore)
  /\ lastCall.op = "add" =>
       IF Pointers_available(lastCall.tableBefore) = 0
       THEN Pointers_size(Table) = Pointers_size(lastCall.tableBefore) + 1
       ELSE /\ Pointers_size(Table) = Pointers_size(lastCall.tableBefore)
            /\ Pointers_available(Table) =
                 Pointers_available(lastCall.tableBefore) - 1

\* C38 witness: with two handles live and one index available, add reused
\* the index: size stayed 3 and nothing is available any more.
C38_Witness ==
  /\ lastCall.op = "add"
  /\ Pointers_available(lastCall.tableBefore) = 1
  /\ Cardinality(lastCall.liveBefore) = 2
  /\ Pointers_size(Table) = 3
  /\ Pointers_available(Table) = 0

\* ------------------------------------------------ parser instances
Insts == 1..MaxInst
\* Addresses XML_ParserCreate can return.
Addrs == 1..MaxInst

DocFoo == <<LT, "f", "o", "o", SLASH, GT>>
DocBad == <<GT, GT>>
DocAttr ==
  <<LT, "f", "o", "o", SP, "a", EQ, QUOT, "b", QUOT, GT, "b", "a", "r",
    LT, SLASH, "f", "o", "o", GT>>
\* The inputs parse() is called with: a document and the final flag.
Inputs == {<<DocFoo, 1>>, <<DocBad, 1>>, <<DocAttr, 1>>, <<DocFoo, 0>>}
WellFormed == {DocFoo, DocAttr}

Init ==
  /\ pointers = <<>>
  /\ unused = <<>>
  /\ inst = [i \in Insts |-> [made |-> FALSE, parser |-> 0, id |-> NoId]]
  /\ eng = [a \in Addrs |-> Freed]
  /\ live = {}
  /\ hist = [i \in Insts |-> "unborn"]
  /\ lastCall = NoCall

Destroyed(i) == inst[i].made /\ inst[i].parser = 0
Live(i) == inst[i].made /\ inst[i].parser /= 0

\* The bytes instance i's parser has been given since it was last reset.
Pending(i) ==
  IF Live(i)
  THEN eng[inst[i].parser].consumed + Len(eng[inst[i].parser].buf)
  ELSE 0

\* The run of parse calls the next parse call on i belongs to: the calls
\* since the last one that was final or raised.  doc is what they fed,
\* events what they delivered, e0 and tbl the parser struct and the Handle
\* Table before the first of them.
NoRun(i) ==
  [calls |-> 0, doc |-> <<>>, events |-> <<>>,
   e0 |-> IF Live(i) THEN eng[inst[i].parser] ELSE Freed, tbl |-> Table]
RunBefore(i) ==
  IF /\ lastCall.op = "parse"
     /\ lastCall.inst = i
     /\ lastCall.threw = "none"
     /\ lastCall.final = 0
  THEN lastCall.run
  ELSE NoRun(i)

\* new XmlParser().  Objects are numbered in the order they are built, and
\* the engine returns the lowest free address a: objects and addresses are
\* opaque, so any other numbering is this one renamed.
Construct(i, a) ==
  /\ ~inst[i].made
  /\ \A j \in Insts : j < i => inst[j].made
  /\ eng[a] = Freed
  /\ \A b \in Addrs : b < a => eng[b] /= Freed
  /\ LET r == Pointers_add(Table, i)
     IN /\ pointers' = r.pointers
        /\ unused' = r.unused
        /\ inst' = [inst EXCEPT ![i] = [made |-> TRUE, parser |-> a,
                                        id |-> r.index]]
        /\ eng' = [eng EXCEPT ![a] =
                     RegisterHandlers(EngineSetUserData(NewParser, r.index))]
        /\ live' = live \cup {r.index}
        /\ hist' = [hist EXCEPT ![i] = "fresh"]
        /\ lastCall' = [op |-> "new", inst |-> i, threw |-> "none",
                        ret |-> r.index, liveBefore |-> live,
                        engineCalls |-> <<"XML_ParserCreateNS",
                          "XML_SetReturnNSTriplet", "XML_SetUserData",
                          "XML_SetHandler">>,
                        delivered |-> <<>>]

\* The check returning quietly instead of raising.
StateCheck_Quiet(me) == "none"

\* if (!this.parser) throw new Error('Invalid state'), the first statement
\* of parse, reset and stop: what it raises on the instance record me.
StateCheck(me) == IF me.parser = 0 THEN "InvalidState" ELSE "none"

\* The call ended at the state check, before anything else happened.
InvalidState(op, i) ==
  /\ lastCall' = [op |-> op, inst |-> i, threw |-> StateCheck(inst[i]),
                  engineCalls |-> <<>>, delivered |-> <<>>,
                  histBefore |-> hist[i], final |-> 1, afterStop |-> FALSE]
  /\ UNCHANGED <<pointers, unused, inst, eng, live, hist>>

\* parse() went past the state check and ended as r says; run is the run of
\* parse calls it continues.
Parsed(i, chunk, final, r, run) ==
  /\ eng' = [eng EXCEPT ![inst[i].parser] = r.e]
  /\ hist' = [hist EXCEPT ![i] =
                IF r.threw = "XmlParseError" THEN "parseError"
                ELSE IF r.threw = "none" /\ r.didReset THEN "finalOk"
                ELSE IF r.threw = "none" /\ r.ret = XML_STATUS_SUSPENDED
                THEN "suspended"
                ELSE "other"]
  /\ lastCall' = [op |-> "parse", inst |-> i, chunk |-> chunk,
                  final |-> final, histBefore |-> hist[i],
                  afterStop |-> \/ hist[i] = "stopped"
                                \/ /\ lastCall.op = "parse"
                                   /\ lastCall.inst = i
                                   /\ lastCall.afterStop,
                  run |-> [calls  |-> run.calls + 1,
                           doc    |-> run.doc \o chunk,
                           events |-> run.events \o r.delivered,
                           e0     |-> run.e0,
                           tbl    |-> run.tbl]] @@ r
  /\ UNCHANGED <<pointers, unused, inst, live>>

\* p.parse(chunk, final) with listeners that do what listeners says
ParseWith(i, chunk, final, listeners) ==
  /\ inst[i].made
  /\ IF inst[i].parser = 0 THEN InvalidState("parse", i)
     ELSE
     Parsed(i, chunk, final,
            [listeners |-> listeners]
              @@ XmlParser_parse(Table, eng[inst[i].parser], chunk, final,
                                 listeners),
            RunBefore(i))

\* p.parse(chunk, final)
Parse(i, chunk, final) == ParseWith(i, chunk, final, Quiet)

\* p.reset()
Reset(i) ==
  /\ inst[i].made
  /\ IF inst[i].parser = 0 THEN InvalidState("reset", i)
     ELSE
     LET a == inst[i].parser
     IN /\ eng' = [eng EXCEPT ![a] = XmlParser_reset(eng[a])]
        /\ hist' = [hist EXCEPT ![i] = "other"]
        /\ lastCall' = [op |-> "reset", inst |-> i, threw |-> "none",
                        engineCalls |-> ResetCalls, delivered |-> <<>>,
                        histBefore |-> hist[i]]
        /\ UNCHANGED <<pointers, unused, inst, live>>

\* p.stop(resumable), called outside of any handler
Stop(i, resumable) ==
  /\ inst[i].made
  /\ IF inst[i].parser = 0 THEN InvalidState("stop", i)
     ELSE
     LET a == inst[i].parser
         r == EngineStop(eng[a], resumable)
     IN /\ eng' = [eng EXCEPT ![a] = r.e]
        /\ hist' = [hist EXCEPT ![i] =
                      IF r.ret = 1 /\ resumable = 0 THEN "stopped"
                      ELSE "other"]
        /\ lastCall' = [op |-> "stop", inst |-> i,
                        threw |-> IF r.ret /= 1 THEN "StopFailed" ELSE "none",
                        resumable |-> resumable,
                        engineCalls |-> <<"XML_StopParser">>,
                        delivered |-> <<>>, histBefore |-> hist[i]]
        /\ UNCHANGED <<pointers, unused, inst, live>>

\* destroy() that keeps this.id.
XmlParser_destroy_KeepId(tbl, me) ==
  LET hasParser == me.parser /= 0
      hasId     == me.id /= NoId
      rm        == IF hasId THEN Pointers_remove(tbl, me.id)
                   ELSE [pointers |-> tbl.pointers, unused |-> tbl.unused,
                         threw |-> FALSE]
  IN [me    |-> [me EXCEPT !.parser = 0],
      free  |-> IF hasParser THEN {me.parser} ELSE {},
      tbl   |-> [pointers |-> rm.pointers, unused |-> rm.unused],
      removed |-> IF hasId /\ ~rm.threw THEN {me.id} ELSE {},
      threw |-> rm.threw,
      valid |-> hasParser /\ hasId]

\* XmlParser.destroy on the instance record me (lines 1339-1355).
XmlParser_destroy(tbl, me) ==
  LET hasParser == me.parser /= 0
      hasId     == me.id /= NoId
      rm        == IF hasId THEN Pointers_remove(tbl, me.id)
                   ELSE [pointers |-> tbl.pointers, unused |-> tbl.unused,
                         threw |-> FALSE]
  IN [me    |-> [me EXCEPT !.parser = 0,
                           !.id = IF rm.threw THEN me.id ELSE NoId],
      free  |-> IF hasParser THEN {me.parser} ELSE {},
      tbl   |-> [pointers |-> rm.pointers, unused |-> rm.unused],
      removed |-> IF hasId /\ ~rm.threw THEN {me.id} ELSE {},
      threw |-> rm.threw,
      valid |-> hasParser /\ hasId]

\* p.destroy()
Destroy(i) ==
  /\ inst[i].made
  /\ LET r == XmlParser_destroy(Table, inst[i])
     IN /\ pointers' = r.tbl.pointers
        /\ unused' = r.tbl.unused
        /\ inst' = [inst EXCEPT ![i] = r.me]
        /\ eng' = [a \in Addrs |-> IF a \in r.free THEN Freed ELSE eng[a]]
        /\ live' = live \ r.removed
        /\ hist' = [hist EXCEPT ![i] = "destroyed"]
        /\ lastCall' = [op |-> "destroy", inst |-> i, me |-> inst[i],
                        threw |-> IF r.threw THEN "AlreadyDeleted" ELSE "none",
                        ret |-> r.valid, freed |-> r.free,
                        removed |-> r.removed,
                        tableBefore |-> Table, histBefore |-> hist[i],
                        engineCalls |-> IF r.free = {} THEN <<>>
                                        ELSE <<"XML_ParserFree">>,
                        delivered |-> IF r.threw THEN <<>>
                                      ELSE Emit(i, "destroy", <<r.valid>>)]

Next ==
  \/ \E i \in Insts, a \in Addrs : Construct(i, a)
  \/ \E i \in Insts, in \in Inputs :
       Pending(i) <= MaxPending /\ Parse(i, in[1], in[2])
  \/ \E i \in Insts : Reset(i)
  \/ \E i \in Insts, resumable \in {0, 1} : Stop(i, resumable)
  \/ \E i \in Insts : Destroy(i)

Spec == Init /\ [][Next]_vars

\* The listener invocations the document doc leads to on instance t when
\* every callback of the engine reaches t.
EventsOf(t, doc) ==
  DispatchAll([pointers |-> <<t>>, unused |-> <<>>], 0,
              XML_Parse(RegisterHandlers(NewParser), doc, 1,
                        NoStop(FALSE)).calls)

\* C2: for every live instance the user-data handle the engine holds for its
\* parser equals the instance's own Handle Table handle, and every listener
\* invocation of a parse call is on the instance that was called.
C2_CallbacksReachOwner ==
  /\ \A i \in Insts :
       Live(i) => XML_GetUserData(eng[inst[i].parser]) = inst[i].id
  /\ lastCall.op = "parse" =>
       \A k \in 1..Len(lastCall.delivered) :
         lastCall.delivered[k].to = lastCall.inst

\* C3: parse, reset and stop on a destroyed instance raise 'Invalid state',
\* make no engine call, deliver nothing and leave the instance destroyed.
C3_DestroyedRejects ==
  (lastCall.op \in {"parse", "reset", "stop"}
     /\ lastCall.histBefore = "destroyed")
  => /\ lastCall.threw = "InvalidState"
     /\ lastCall.engineCalls = <<>>
     /\ lastCall.delivered = <<>>
     /\ Destroyed(lastCall.inst)
     /\ hist[lastCall.inst] = "destroyed"

\* C3 witness: parse was called on a destroyed instance while another
\* instance was live.
C3_Witness ==
  /\ lastCall.op = "parse"
  /\ lastCall.histBefore = "destroyed"
  /\ \E j \in Insts : Live(j)

\* C4: the first destroy() frees the engine parser, removes the Handle Table
\* entry, emits 'destroy' with true and returns true; a later destroy()
\* returns false without raising, frees nothing and leaves the table as it
\* was, whoever holds the former handle now.
C4_DestroyOnce ==
  lastCall.op = "destroy" =>
    IF lastCall.histBefore /= "destroyed"
    THEN /\ lastCall.threw = "none"
         /\ lastCall.ret = TRUE
         /\ lastCall.freed = {lastCall.me.parser}
         /\ eng[lastCall.me.parser] = Freed
         /\ lastCall.removed = {lastCall.me.id}
         /\ lastCall.me.id \notin live
         /\ Pointers_get(Table, lastCall.me.id) = Absent
         /\ lastCall.delivered = Emit(lastCall.inst, "destroy", <<TRUE>>)
         /\ Destroyed(lastCall.inst)
    ELSE /\ lastCall.threw = "none"
         /\ lastCall.ret = FALSE
         /\ lastCall.freed = {}
         /\ lastCall.removed = {}
         /\ Table = lastCall.tableBefore
         /\ lastCall.delivered = Emit(lastCall.inst, "destroy", <<FALSE>>)

\* C4 witness: a second destroy() on an instance whose former handle is held
\* by another live instance.
C4_Witness ==
  /\ lastCall.op = "destroy"
  /\ lastCall.histBefore = "destroyed"
  /\ \E j \in Insts : Live(j) /\ inst[j].id = 0 /\ j > lastCall.inst

\* C5: a failed feed raises an XmlParseError with the engine's code, message,
\* line, column and byte offset as they were at the failure, the parser is
\* reset, and a parse of a well-formed document that follows succeeds.
C5_ErrorThenReusable ==
  /\ (lastCall.op = "parse" /\ lastCall.histBefore /= "destroyed"
        /\ lastCall.threw /= "TypeError" /\ lastCall.ret = XML_STATUS_ERROR)
     => /\ lastCall.threw = "XmlParseError"
        /\ lastCall.error = XmlParseError(lastCall.atFailure)
        /\ lastCall.didReset
  /\ (lastCall.op = "parse" /\ lastCall.histBefore = "parseError"
        /\ lastCall.chunk \in WellFormed /\ lastCall.final = 1)
     => /\ lastCall.threw = "none"
        /\ lastCall.ret = XML_STATUS_OK

\* C6: after a final parse returned successfully, a parse of a second
\* document on the same instance, with no reset() in between, succeeds and
\* delivers the events of that document to the instance's listeners.
C6_ReparseAfterFinal ==
  (lastCall.op = "parse" /\ lastCall.histBefore = "finalOk"
     /\ lastCall.chunk \in WellFormed /\ lastCall.final = 1)
  => /\ lastCall.threw = "none"
     /\ lastCall.ret = XML_STATUS_OK
     /\ lastCall.delivered = EventsOf(lastCall.inst, lastCall.chunk)

\* ------------------------------------------------- order of delivery
IsNamed(d) == d.on /= "*"
\* The listener invocations other than those of '*' listeners.
Named(delivered) == SelectSeq(delivered, IsNamed)

Foo == <<"f", "o", "o">>
\* What the listeners of a fresh instance t see for DocAttr.
DocAttrEvents(t) ==
  << [to |-> t, on |-> "startElement",
      args |-> <<Foo, (<<"a">> :> <<"b">>)>>],
     [to |-> t, on |-> "characterData", args |-> << <<"b", "a", "r">> >>],
     [to |-> t, on |-> "endElement", args |-> <<Foo>>] >>

\* C10: the listener invocations of a parse call are those of the callbacks
\* the engine made during that call, one for one and in the engine's order,
\* each followed by its '*' invocation; no other operation delivers a document
\* event; and <foo a="b">bar</foo> on a fresh instance gives startElement,
\* characterData, endElement with the same element name.
C10_DeliveredInOrder ==
  /\ (lastCall.op = "parse" /\ lastCall.histBefore /= "destroyed") =>
       LET named == Named(lastCall.delivered)
           made  == IF lastCall.threw = "TypeError"
                    THEN Len(lastCall.calls) - 1 ELSE Len(lastCall.calls)
       IN /\ Len(named) = made
          /\ Len(lastCall.delivered) = 2 * made
          /\ \A k \in 1..made :
               /\ named[k].on = lastCall.calls[k][1]
               /\ lastCall.delivered[2 * k - 1] = named[k]
               /\ lastCall.delivered[2 * k].on = "*"
               /\ lastCall.delivered[2 * k].args[1] = named[k].on
  /\ lastCall.op \in {"new", "reset", "stop"} => lastCall.delivered = <<>>
  /\ lastCall.op = "destroy" =>
       \A k \in 1..Len(Named(lastCall.delivered)) :
         Named(lastCall.delivered)[k].on = "destroy"
  /\ (lastCall.op = "parse" /\ lastCall.histBefore = "fresh"
        /\ lastCall.chunk = DocAttr /\ lastCall.final = 1) =>
       /\ lastCall.threw = "none"
       /\ Named(lastCall.delivered) = DocAttrEvents(lastCall.inst)
       /\ Named(lastCall.delivered)[3].args[1]
            = Named(lastCall.delivered)[1].args[1]

\* C10 witness: <foo a="b">bar</foo> parsed by a fresh instance that is not
\* the only live one.
C10_Witness ==
  /\ lastCall.op = "parse"
  /\ lastCall.histBefore = "fresh"
  /\ lastCall.chunk = DocAttr
  /\ Len(lastCall.delivered) = 6
  /\ \E j \in Insts : j /= lastCall.inst /\ Live(j)

\* ------------------------------------- a document fed in two pieces
DocNest ==
  <<LT, "a", GT, "t", LT, "b", SLASH, GT, "u", "v", LT, SLASH, "a", GT>>
\* <foo/> with white space before and after it
DocSpaced == <<SP>> \o DocFoo \o <<SP, SP>>
\* <f:g xmlns:f="u"/>, and the same tag with a prefix that is not bound
DocNs ==
  <<LT, "f", COLON, "g", SP, "x", "m", "l", "n", "s", COLON, "f", EQ, QUOT,
    "u", QUOT, SLASH, GT>>
DocUnbound ==
  <<LT, "q", COLON, "g", SP, "x", "m", "l", "n", "s", COLON, "f", EQ, QUOT,
    "u", QUOT, SLASH, GT>>
SplitDocs ==
  {DocFoo, DocAttr, DocNest, DocBad, DocSpaced, DocNs, DocUnbound}
\* Every document whole, and every head and tail of it.
SplitChunks ==
  UNION {{SubSeq(d, 1, k) : k \in 0..Len(d)}
           \cup {SubSeq(d, k + 1, Len(d)) : k \in 0..Len(d)} : d \in SplitDocs}

\* The caller feeds a document whole in a final call, or its head in a
\* non-final call and then its tail in a final call.
SplitStep(i, chunk, final) ==
  IF RunBefore(i).calls = 0
  THEN \/ final = 1 /\ chunk \in SplitDocs
       \/ final = 0 /\ \E d \in SplitDocs :
                          /\ Len(chunk) <= Len(d)
                          /\ chunk = SubSeq(d, 1, Len(chunk))
  ELSE final = 1 /\ RunBefore(i).doc \o chunk \in SplitDocs

\* One instance; parse is called with pieces of documents.
NextSplit ==
  \/ Construct(1, 1)
  \/ \E chunk \in SplitChunks, final \in {0, 1} :
       SplitStep(1, chunk, final) /\ Parse(1, chunk, final)
  \/ Reset(1)
  \/ Destroy(1)

SpecSplit == Init /\ [][NextSplit]_vars

\* Adjacent characterData invocations made one, and adjacent default
\* invocations made one, their texts joined.
RECURSIVE JoinText(_)
JoinText(evs) ==
  IF Len(evs) < 2 THEN evs
  ELSE IF evs[1].on \in {"characterData", "default"} /\ evs[2].on = evs[1].on
  THEN JoinText(<<[evs[1] EXCEPT !.args = <<evs[1].args[1] \o evs[2].args[1]>>]>>
                  \o SubSeq(evs, 3, Len(evs)))
  ELSE <<evs[1]>> \o JoinText(Tail(evs))

\* The last call ended a run of two parse calls: a non-final one, then a
\* final one.
TwoPieceRun ==
  /\ lastCall.op = "parse"
  /\ lastCall.histBefore /= "destroyed"
  /\ lastCall.final = 1
  /\ lastCall.run.calls = 2
  /\ lastCall.run.doc \in SplitDocs

\* parse(doc, 1) called where the run of the last call began.
WholeInstead ==
  XmlParser_parse(lastCall.run.tbl, lastCall.run.e0, lastCall.run.doc, 1,
                  Quiet)

MaxChunks == 2
MaxFeeds == 2

\* A document of len bytes: an element around text, or white space when
\* len is too small for one.
XmlDoc(len) ==
  IF len < 7 THEN [k \in 1..len |-> SP]
  ELSE <<LT, "a", GT>> \o [k \in 1..(len - 7) |-> "x"] \o <<LT, SLASH, "a", GT>>
\* len bytes that are no document.
Junk(len) == [k \in 1..len |-> GT]

\* Lengths around the multiples of CHUNK_SIZE.
Lens ==
  {n \in UNION {{k * CHUNK_SIZE - 1, k * CHUNK_SIZE, k * CHUNK_SIZE + 1} :
                  k \in 0..MaxChunks} : n >= 0} \cup {7}
ChunkInputs == {XmlDoc(n) : n \in Lens} \cup {Junk(n) : n \in Lens}

\* A parser from XML_ParserCreate at address 1: no instance, no handlers.
InitChunk ==
  /\ pointers = <<>>
  /\ unused = <<>>
  /\ inst = [i \in Insts |-> [made |-> FALSE, parser |-> 0, id |-> NoId]]
  /\ eng = [a \in Addrs |-> IF a = 1 THEN [NewParser EXCEPT !.sep = "NO_NAMESPACES"]
                            ELSE Freed]
  /\ live = {}
  /\ hist = [i \in Insts |-> "unborn"]
  /\ lastCall = NoCall

\* XmlParser.XML_Parse(parser, str, isFinal), on a parser just created or
\* reset, or to go on after a non-final call that succeeded.
Feed(str, isFinal) ==
  LET r == XML_Parse(eng[1], str, isFinal, NoStop(FALSE))
      going == lastCall.op = "feed"
  IN /\ going => /\ lastCall.nth < MaxFeeds
                 /\ lastCall.isFinal = 0
                 /\ lastCall.ret = XML_STATUS_OK
     /\ eng[1].consumed + Len(eng[1].buf) + Len(str)
          <= MaxChunks * CHUNK_SIZE + 1
     /\ eng' = [eng EXCEPT ![1] = r.e]
     /\ lastCall' = [op |-> "feed", str |-> str, isFinal |-> isFinal,
                     ret |-> r.ret, fed |-> r.fed,
                     nth |-> IF going THEN lastCall.nth + 1 ELSE 1]
     /\ UNCHANGED <<pointers, unused, inst, live, hist>>

\* XmlParser.XML_ParserReset(parser)
FeedReset ==
  /\ lastCall.op = "feed"
  /\ eng' = [eng EXCEPT ![1] = EngineReset(eng[1])]
  /\ lastCall' = [op |-> "XML_ParserReset"]
  /\ UNCHANGED <<pointers, unused, inst, live, hist>>

NextChunk ==
  \/ \E str \in ChunkInputs, isFinal \in {0, 1} : Feed(str, isFinal)
  \/ FeedReset

SpecChunk == InitChunk /\ [][NextChunk]_vars

\* The number of sub-chunks an input of len bytes is cut into.
NumChunks(len) == Max(1, (len + CHUNK_SIZE - 1) \div CHUNK_SIZE)

RECURSIVE Concat(_)
Concat(fed) ==
  IF Len(fed) = 0 THEN <<>> ELSE fed[1].chunk \o Concat(Tail(fed))

\* C7: the engine is handed max(1, ceil(len / CHUNK_SIZE)) sub-chunks when
\* none fails, each of at most CHUNK_SIZE bytes, whose concatenation in call
\* order is the input; an empty input gives one empty sub-chunk; after a
\* failure the sub-chunks handed over are a head of the input.
C7_ChunksAreTheInput ==
  lastCall.op = "feed" =>
    LET fed == lastCall.fed
        str == lastCall.str
        cat == Concat(fed)
    IN /\ Len(fed) >= 1
       /\ Len(fed) <= NumChunks(Len(str))
       /\ \A k \in 1..Len(fed) : Len(fed[k].chunk) <= CHUNK_SIZE
       /\ Len(cat) <= Len(str)
       /\ cat = SubSeq(str, 1, Len(cat))
       /\ lastCall.ret /= XML_STATUS_ERROR => Len(fed) = NumChunks(Len(str))
       /\ Len(fed) = NumChunks(Len(str)) => cat = str
       /\ Len(str) = 0 => Len(fed) = 1 /\ fed[1].chunk = <<>>

\* C7 witness: an input one byte longer than two sub-chunks, fed without a
\* failure in three sub-chunks.
C7_Witness ==
  /\ lastCall.op = "feed"
  /\ Len(lastCall.str) = 2 * CHUNK_SIZE + 1
  /\ lastCall.ret = XML_STATUS_OK
  /\ Len(lastCall.fed) = 3
  /\ Len(lastCall.fed[3].chunk) = 1

\* C8: a sub-chunk carries a non-zero final flag only if the caller passed
\* the final flag and it is the last sub-chunk of the input; a final feed
\* that was fed completely has its last sub-chunk, and no other, marked final
\* with the caller's flag.
C8_OnlyLastIsFinal ==
  lastCall.op = "feed" =>
    LET fed == lastCall.fed
        n   == NumChunks(Len(lastCall.str))
    IN /\ \A k \in 1..Len(fed) :
            fed[k].isFinal /= 0 => lastCall.isFinal /= 0 /\ k = n
       /\ (lastCall.isFinal /= 0 /\ Len(fed) = n) =>
            fed[n].isFinal = lastCall.isFinal

\* C8 witness: a final feed of exactly two sub-chunks, the first handed over
\* with flag 0 and the second with flag 1.
C8_Witness ==
  /\ lastCall.op = "feed"
  /\ lastCall.isFinal = 1
  /\ Len(lastCall.str) = 2 * CHUNK_SIZE
  /\ Len(lastCall.fed) = 2
  /\ lastCall.fed[1].isFinal = 0
  /\ lastCall.fed[2].isFinal = 1

\* ------------------------------------------- one instance, stop()
\* <a>t<b/>uv</a> as a whole, and cut after <b/>.
DocNestHead == SubSeq(DocNest, 1, 8)
DocNestTail == SubSeq(DocNest, 9, Len(DocNest))
\* What the listeners of a feed do: nothing, or the listener of the
\* stopAt-th callback calls p.stop(resumable).
StopListeners ==
  {Quiet} \cup {[stopAt |-> n, resumable |-> b] : n \in 1..5, b \in {0, 1}}
\* <f:g xmlns:f="u">t</f:g>
DocNsText ==
  SubSeq(DocNs, 1, Len(DocNs) - 2)
    \o <<GT, "t", LT, SLASH, "f", COLON, "g", GT>>
\* The feeds: a document whole, the head of <a>t<b/>uv</a>, or its tail.
StopInputs ==
  {<<DocNest, 1>>, <<DocNestHead, 0>>, <<DocNestTail, 1>>, <<DocNs, 1>>,
   <<DocNsText, 1>>, <<DocUnbound, 1>>}

\* A document or its head is fed to a parser that holds no bytes of an
\* earlier feed; the tail is fed at any time.
StopStep(chunk, final, listeners) ==
  /\ chunk /= DocNestTail => Pending(1) = 0
  /\ ParseWith(1, chunk, final, listeners)

NextStop ==
  \/ Construct(1, 1)
  \/ \E in \in StopInputs, listeners \in StopListeners :
       StopStep(in[1], in[2], listeners)
  \/ \E resumable \in {0, 1} : Stop(1, resumable)
  \/ Reset(1)
  \/ Destroy(1)

SpecStop == Init /\ [][NextStop]_vars

\* A listener of the last parse call called stop(resumable) with the given
\* flag.
StoppedInHandler(resumable) ==
  /\ lastCall.op = "parse"
  /\ lastCall.histBefore /= "destroyed"
  /\ lastCall.threw /= "TypeError"
  /\ lastCall.listeners.stopAt \in 1..Len(lastCall.calls)
  /\ lastCall.listeners.resumable = resumable

\* The callbacks of the token the engine ended the feed in.
LastToken ==
  SubSeq(lastCall.calls,
         Len(lastCall.calls) - lastCall.atFailure.tokenCalls + 1,
         Len(lastCall.calls))
\* That token is a tag the engine found to be in error after it had
\* announced a namespace declaration of it: no startElement was called.
TagFailedAfterStop ==
  /\ \E k \in 1..Len(LastToken) : LastToken[k][1] = "startNamespaceDecl"
  /\ \A k \in 1..Len(LastToken) : LastToken[k][1] /= "startElement"

\* C12 as stated: once stop(0) succeeded on an instance, every parse call
\* on it raises.
C12_StoppedForGood ==
  (lastCall.op = "parse" /\ lastCall.afterStop) => lastCall.threw /= "none"

\* C12: the parse call that follows a successful stop(0) made outside a
\* handler raises XmlParseError 'parsing finished' without delivering an
\* event, and a parse call during which a listener calls stop(0) raises
\* XmlParseError 'parsing aborted', or the error of the tag in progress
\* when that tag is in error; in both cases parse() resets the parser,
\* which is left exactly as reset() leaves it.
C12_StopThenErrorThenReset ==
  /\ (lastCall.op = "parse" /\ lastCall.histBefore = "stopped") =>
       /\ lastCall.threw = "XmlParseError"
       /\ lastCall.error.code = XML_Error.FINISHED
       /\ lastCall.error.xmlMessage = "parsing finished"
       /\ lastCall.delivered = <<>>
       /\ lastCall.didReset
       /\ eng[inst[lastCall.inst].parser] = XmlParser_reset(lastCall.atFailure)
  /\ StoppedInHandler(0) =>
       /\ lastCall.threw = "XmlParseError"
       /\ IF TagFailedAfterStop
          THEN lastCall.error.code = XML_Error.UNBOUND_PREFIX
          ELSE /\ lastCall.error.code = XML_Error.ABORTED
               /\ lastCall.error.xmlMessage = "parsing aborted"
       /\ lastCall.didReset
       /\ eng[inst[lastCall.inst].parser] = XmlParser_reset(lastCall.atFailure)

\* C12 witness: <a>t<b/>uv</a> fed to an instance right after stop(0)
\* succeeded on it: the call raised 'parsing finished' and reset the parser.
C12_Witness ==
  /\ lastCall.op = "parse"
  /\ lastCall.histBefore = "stopped"
  /\ lastCall.chunk = DocNest
  /\ lastCall.listeners = Quiet
  /\ lastCall.threw = "XmlParseError"
  /\ lastCall.error.code = XML_Error.FINISHED
  /\ lastCall.atFailure.parsing = "FINISHED"
  /\ eng[1].parsing = "INITIALIZED"

\* C13: a parse call on an instance whose previous parse call was suspended
\* by a listener calling stop(1) does not raise.
C13_ResumeByParse ==
  (lastCall.op = "parse" /\ lastCall.histBefore = "suspended") =>
    lastCall.threw = "none"

AllOfKind(calls, kinds) == \A k \in 1..Len(calls) : calls[k][1] \in kinds

C34_ResetOnErrorOrFinalOk ==
  (lastCall.op = "parse" /\ lastCall.histBefore /= "destroyed"
     /\ lastCall.threw /= "TypeError") =>
    LET a == inst[lastCall.inst].parser
    IN /\ lastCall.didReset <=>
            \/ lastCall.ret = XML_STATUS_ERROR
            \/ lastCall.ret = XML_STATUS_OK /\ lastCall.final = 1
       /\ lastCall.didReset =>
            /\ eng[a] = XmlParser_reset(lastCall.atFailure)
            /\ SubSeq(lastCall.engineCalls,
                      Len(lastCall.engineCalls) - 1,
                      Len(lastCall.engineCalls)) = ResetCalls
       /\ ~lastCall.didReset =>
            /\ eng[a] = lastCall.atFailure
            /\ \A k \in 1..Len(lastCall.engineCalls) :
                 lastCall.engineCalls[k] = "XML_Parse"
       /\ (lastCall.ret = XML_STATUS_OK /\ lastCall.final = 0) =>
            eng[a].consumed + Len(eng[a].buf)
              = lastCall.run.e0.consumed + Len(lastCall.run.e0.buf)
                  + Len(lastCall.run.doc)

\* C34 witness: the head <a>t<b/> was fed with final 0 and then the tail
\* uv</a> with final 1: the first call left the parser with the element a
\* open, the second call went on from there and reset the parser.
C34_Witness ==
  /\ lastCall.op = "parse"
  /\ lastCall.run.calls = 2
  /\ lastCall.run.doc = DocNest
  /\ lastCall.chunk = DocNestTail
  /\ lastCall.ret = XML_STATUS_OK
  /\ lastCall.didReset
  /\ Len(lastCall.calls) = 2
  /\ eng[1].parsing = "INITIALIZED"

\* ------------------------------- one instance, feeds of several sub-chunks
\* <a>xx...x</a> of one byte more than CHUNK_SIZE and of one byte more than
\* twice CHUNK_SIZE, and a short document.
FeedDocs == {DocFoo, XmlDoc(CHUNK_SIZE + 1), XmlDoc(2 * CHUNK_SIZE + 1)}
\* The listener of the first, second or third callback of a feed calls
\* stop, or none does.
FeedListeners ==
  {Quiet} \cup {[stopAt |-> n, resumable |-> b] : n \in 1..3, b \in {0, 1}}

\* p.parse(doc, final) on a parser that holds no bytes of an earlier feed
FeedStep(doc, final, listeners) ==
  /\ Pending(1) = 0
  /\ ParseWith(1, doc, final, listeners)

NextFeed ==
  \/ Construct(1, 1)
  \/ \E doc \in FeedDocs, final \in {0, 1}, listeners \in FeedListeners :
       FeedStep(doc, final, listeners)
  \/ \E resumable \in {0, 1} : Stop(1, resumable)
  \/ Reset(1)
  \/ Destroy(1)

SpecFeed == Init /\ [][NextFeed]_vars

\* C32: within one feed, a sub-chunk for which the engine returned the
\* suspended status is the last sub-chunk of that feed handed to the engine.
C32_NoSubChunkAfterSuspend ==
  (lastCall.op = "parse" /\ lastCall.histBefore /= "destroyed") =>
    \A k \in 1..Len(lastCall.fed) :
      lastCall.fed[k].ret = XML_STATUS_SUSPENDED => k = Len(lastCall.fed)

\* ------------------------------------ destroy() called from inside a handler
\* What the engine does once its parser was freed under it is undefined:
\* every XML_Parse call that runs on the freed parser returns one of the
\* three statuses, or a later callback of it raises in Pointers.call, the
\* handle being gone from the Handle Table.
FreedOutcomes == {"error", "ok", "suspended", "raises"}
StatusOf(ub) ==
  IF ub = "ok" THEN XML_STATUS_OK
  ELSE IF ub = "suspended" THEN XML_STATUS_SUSPENDED
  ELSE XML_STATUS_ERROR

\* The number of rounds of the loop of XmlParser.XML_Parse over len bytes
\* (lines 414-418): one for the empty input.
SubChunks(len) ==
  IF len = 0 THEN 1 ELSE (len + CHUNK_SIZE - 1) \div CHUNK_SIZE

\* The sub-chunk during which the n-th callback of the feed is made, known
\* from the run r0 of the same feed in which that callback calls stop(1):
\* the first sub-chunk the engine returned 2 for (0 for none).
SubChunkOfCallback(r0) ==
  IF \E k \in 1..Len(r0.fed) : r0.fed[k].ret = XML_STATUS_SUSPENDED
  THEN CHOOSE k \in 1..Len(r0.fed) :
         /\ r0.fed[k].ret = XML_STATUS_SUSPENDED
         /\ \A j \in 1..(k - 1) : r0.fed[j].ret /= XML_STATUS_SUSPENDED
  ELSE 0

\* The XML_Parse calls that run on the freed parser, the first of them the
\* one the parser was freed in: ubs[j] is the outcome of the j-th, and the
\* loop (lines 414-435) makes at most last of them.  It ends with the
\* call that raised or returned 0 (line 432), or with the last sub-chunk.
RECURSIVE RunsOnFreed(_, _, _)
RunsOnFreed(ubs, j, last) ==
  IF j >= last \/ ubs[j] \in {"raises", "error"} THEN j
  ELSE RunsOnFreed(ubs, j + 1, last)

\* The XML_Parse calls made with the freed handle: all that run on the
\* freed parser but the one it was freed in.
CallsAfterFree(ubs, last) ==
  [j \in 1..(RunsOnFreed(ubs, 1, last) - 1) |-> "XML_Parse"]

\* What parse() raises after the loop (lines 1274-1281) with this.parser
\* deleted: reset() fails its state check where parse() calls it.
RaisedAfterFree(final, ub) ==
  IF ub = "raises" THEN "TypeError"
  ELSE IF ResetAfter(StatusOf(ub), final) THEN "InvalidState"
  ELSE "none"

\* p.parse(doc, final) in which the last listener called for the n-th
\* callback calls p.destroy(): k is the sub-chunk of that callback, calls
\* the callbacks of the feed up to it, and ubs the outcomes of the engine
\* calls that run on the freed parser.  The local variable parser of
\* XML_Parse keeps the freed handle, and the loop goes on with it.  When
\* the loop returned 0, new XmlParseError(this.parser) of line 1275 makes
\* its queries with the deleted field before reset() raises.
DestroyedInHandler(doc, final, n, k, calls, ubs) ==
  LET d    == XmlParser_destroy(Table, inst[1])
      last == SubChunks(Len(doc)) - k + 1
      m    == RunsOnFreed(ubs, 1, last)
  IN /\ pointers' = d.tbl.pointers
     /\ unused' = d.tbl.unused
     /\ inst' = [inst EXCEPT ![1] = d.me]
     /\ eng' = [a \in Addrs |-> IF a \in d.free THEN Freed ELSE eng[a]]
     /\ live' = live \ d.removed
     /\ hist' = [hist EXCEPT ![1] = "destroyed"]
     /\ lastCall' =
          [op |-> "parse", inst |-> 1, chunk |-> doc, final |-> final,
           histBefore |-> hist[1], afterStop |-> FALSE,
           destroyAt |-> n, sub |-> k, outcomes |-> SubSeq(ubs, 1, m),
           threw |-> RaisedAfterFree(final, ubs[m]),
           ret |-> StatusOf(ubs[m]),
           engineCalls |-> [j \in 1..k |-> "XML_Parse"]
                             \o <<"XML_ParserFree">>
                             \o CallsAfterFree(ubs, last)
                             \o (IF ubs[m] = "error" THEN ErrorQueries
                                 ELSE <<>>),
           afterFree |-> CallsAfterFree(ubs, last),
           delivered |-> DispatchAll(Table, XML_GetUserData(eng[inst[1].parser]),
                                     calls)
                           \o Emit(1, "destroy", <<d.valid>>),
           run |-> NoRun(1)]

\* The feed of DestroyedInHandler under every outcome of the engine calls
\* that run on the freed parser; r0 as in SubChunkOfCallback.
DestroyedAt(doc, final, n, r0) ==
  LET k == SubChunkOfCallback(r0)
  IN /\ k > 0
     /\ \E ubs \in [1..(SubChunks(Len(doc)) - k + 1) -> FreedOutcomes] :
          DestroyedInHandler(doc, final, n, k, SubSeq(r0.calls, 1, n), ubs)

ParseDestroying(doc, final, n) ==
  /\ Live(1)
  /\ Pending(1) = 0
  /\ Pointers_get(Table, XML_GetUserData(eng[inst[1].parser])) /= Absent
  /\ DestroyedAt(doc, final, n,
                 XML_Parse(eng[inst[1].parser], doc, final,
                           [cbThrows |-> FALSE, stopAt |-> n,
                            resumable |-> 1]))

NextDestroy ==
  \/ Construct(1, 1)
  \/ \E doc \in FeedDocs, final \in {0, 1} : FeedStep(doc, final, Quiet)
  \/ \E doc \in FeedDocs, final \in {0, 1}, n \in 1..3 :
       ParseDestroying(doc, final, n)
  \/ \E resumable \in {0, 1} : Stop(1, resumable)
  \/ Reset(1)
  \/ Destroy(1)

SpecDestroy == Init /\ [][NextDestroy]_vars

\* C39: no call into the engine is made with a parser handle that
\* XML_ParserFree was called on: a call on a destroyed instance makes no
\* engine call, and a feed during which a listener destroyed the instance
\* makes none after that.
C39_NoEngineCallAfterFree ==
  /\ (lastCall.op \in {"parse", "reset", "stop"}
        /\ lastCall.histBefore = "destroyed") =>
       lastCall.engineCalls = <<>>
  /\ "afterFree" \in DOMAIN lastCall => lastCall.afterFree = <<>>

\* ------------------------------- instances suspended by a listener, then reset
\* No listener calls stop, or the listener of the first or of the second
\* callback of a feed calls stop(1).
SuspendListeners ==
  {Quiet, [stopAt |-> 1, resumable |-> 1], [stopAt |-> 2, resumable |-> 1]}

\* p.parse(doc, 1) of a whole document on a parser that holds no bytes of
\* an earlier feed
ParseWhole(i, doc, listeners) ==
  /\ Pending(i) = 0
  /\ ParseWith(i, doc, 1, listeners)

NextSuspend ==
  \/ \E i \in Insts, a \in Addrs : Construct(i, a)
  \/ \E i \in Insts, doc \in WellFormed, listeners \in SuspendListeners :
       ParseWhole(i, doc, listeners)
  \/ \E i \in Insts : Reset(i)
  \/ \E i \in Insts : Destroy(i)

SpecSuspend == Init /\ [][NextSuspend]_vars

\* The last call was reset() on an instance a listener had suspended, and
\* the step is the parse of a whole well-formed document on that instance
\* with no listener calling stop.
ParseAfterSuspendAndReset ==
  /\ lastCall.op = "reset"
  /\ lastCall.threw = "none"
  /\ lastCall.histBefore = "suspended"
  /\ lastCall'.op = "parse"
  /\ lastCall'.inst = lastCall.inst
  /\ lastCall'.chunk \in WellFormed
  /\ lastCall'.listeners = Quiet

\* C33: a parse call in whose last sub-chunk a listener called stop(1)
\* returns 2 without raising and without a reset, and after reset() the
\* parse of a new well-formed document on that instance succeeds: it returns
\* 1 and delivers the events of the document to the instance.
C33_SuspendThenResetParses ==
  /\ [](StoppedInHandler(1) =>
          /\ lastCall.threw = "none"
          /\ lastCall.ret = XML_STATUS_SUSPENDED
          /\ ~lastCall.didReset)
  /\ [][ParseAfterSuspendAndReset =>
          /\ lastCall'.threw = "none"
          /\ lastCall'.ret = XML_STATUS_OK
          /\ lastCall'.delivered =
               EventsOf(lastCall'.inst, lastCall'.chunk)]_vars

\* The first half of C33 on its own.
C33_SuspendedReturnsTwo ==
  StoppedInHandler(1) =>
    /\ lastCall.threw = "none"
    /\ lastCall.ret = XML_STATUS_SUSPENDED
    /\ ~lastCall.didReset

\* ------------------------------------------------- the trampoline slots
\* -s RESERVED_FUNCTION_POINTERS=30 of the build: the number of functions
\* addFunction can install.
RESERVED_FUNCTION_POINTERS == 30

\* The event kinds of the static initializer (lines 187-207), each with the
\* number of its arguments and whether _simpleEvent handles it; name is the
\* key lc of the kind, its first letter in lower case.
EVENTS ==
  << [name |-> "attlistDecl", num |-> 5, simple |-> FALSE],
     [name |-> "characterData", num |-> 2, simple |-> FALSE],
     [name |-> "comment", num |-> 1, simple |-> TRUE],
     [name |-> "default", num |-> 2, simple |-> FALSE],
     [name |-> "elementDecl", num |-> 2, simple |-> FALSE],
     [name |-> "endCdataSection", num |-> 0, simple |-> TRUE],
     [name |-> "endDoctypeDecl", num |-> 0, simple |-> TRUE],
     [name |-> "endElement", num |-> 1, simple |-> TRUE],
     [name |-> "endNamespaceDecl", num |-> 1, simple |-> TRUE],
     [name |-> "entityDecl", num |-> 8, simple |-> FALSE],
     [name |-> "externalEntityRef", num |-> 4, simple |-> FALSE],
     [name |-> "notationDecl", num |-> 4, simple |-> TRUE],
     [name |-> "processingInstruction", num |-> 2, simple |-> TRUE],
     [name |-> "skippedEntity", num |-> 2, simple |-> FALSE],
     [name |-> "startCdataSection", num |-> 0, simple |-> TRUE],
     [name |-> "startDoctypeDecl", num |-> 4, simple |-> FALSE],
     [name |-> "startElement", num |-> 2, simple |-> FALSE],
     [name |-> "startNamespaceDecl", num |-> 2, simple |-> TRUE],
     [name |-> "xmlDecl", num |-> 3, simple |-> FALSE] >>
EventKinds == {EVENTS[k].name : k \in 1..Len(EVENTS)}

\* The static state of the class that the slots live in: fnTable - the
\* functions installed in the engine's function table, in slot order,
\* CB_TYPES - the slot of each event kind (0 for none), threw - addFunction
\* found no reserved slot left.
NoSlots ==
  [fnTable |-> <<>>, CB_TYPES |-> [k \in EventKinds |-> 0], threw |-> FALSE]

\* The function the static initializer installs for the event kind ev: the
\* external-entity trampoline, or Pointers.bind of the handler's name and
\* the event.
TrampolineOf(ev) ==
  IF ev.name = "externalEntityRef"
  THEN <<"_externalEntityRefTrampoline", ev.name>>
  ELSE Pointers_bind(IF ev.simple THEN "_simpleEvent" ELSE "_" \o ev.name,
                     ev.name)

\* CB_TYPES[lc] = expat.addFunction(func, sig): the function takes the next
\* reserved slot of the function table, and the call raises when none is
\* left.
AddFunction(st, lc, func) ==
  IF st.threw THEN st
  ELSE IF Len(st.fnTable) >= RESERVED_FUNCTION_POINTERS
  THEN [st EXCEPT !.threw = TRUE]
  ELSE [st EXCEPT !.fnTable = Append(@, func),
                  !.CB_TYPES = [@ EXCEPT ![lc] = Len(st.fnTable) + 1]]

\* The reduce of the static initializer (lines 207-227) from the k-th event
\* kind on.
RECURSIVE StaticInitFrom(_, _)
StaticInitFrom(st, k) ==
  IF k > Len(EVENTS) THEN st
  ELSE StaticInitFrom(AddFunction(st, EVENTS[k].name, TrampolineOf(EVENTS[k])),
                      k + 1)

\* The static state once the module is loaded.
StaticInit == StaticInitFrom(NoSlots, 1)

\* The keys of XmlParser.#EVENTS in insertion order: the event kinds, then
\* defaultExpand (lines 229-233).
SetterKeys == [k \in 1..Len(EVENTS) |-> EVENTS[k].name] \o <<"defaultExpand">>

\* k.startsWith('default')
StartsWithDefault(k) == k \in {"default", "defaultExpand"}

\* What a run of _registerHandlers leaves: st - the static state, set - the
\* calls setEventHandler(this.parser, slot) it made, each as the setter's
\* key and the slot.
RECURSIVE RegisterLoop(_, _, _)
RegisterLoop(st, set, k) ==
  IF k > Len(SetterKeys) THEN [st |-> st, set |-> set]
  ELSE IF StartsWithDefault(SetterKeys[k]) THEN RegisterLoop(st, set, k + 1)
  ELSE RegisterLoop(st,
                    Append(set, <<SetterKeys[k], st.CB_TYPES[SetterKeys[k]]>>),
                    k + 1)

\* _registerHandlers that makes a function of its own for every event kind
\* of the instance.
RECURSIVE RegisterLoop_PerInstance(_, _, _)
RegisterLoop_PerInstance(st, set, k) ==
  IF k > Len(EVENTS) THEN [st |-> st, set |-> set]
  ELSE RegisterLoop_PerInstance(
         AddFunction(st, EVENTS[k].name, TrampolineOf(EVENTS[k])),
         Append(set, <<EVENTS[k].name, Len(st.fnTable) + 1>>), k + 1)
XmlParser_registerHandlers_PerInstance(st, expandInternalEntities) ==
  RegisterLoop_PerInstance(st, <<>>, 1)

\* XmlParser._registerHandlers (lines 781-794) under the static state st.
XmlParser_registerHandlers(st, expandInternalEntities) ==
  LET r == RegisterLoop(st, <<>>, 1)
  IN [st  |-> r.st,
      set |-> Append(r.set,
                     <<IF expandInternalEntities THEN "defaultExpand"
                       ELSE "default",
                       st.CB_TYPES["default"]>>)]

\* The module is loaded and no instance has been built; hist is the
\* static state of the class.
InitSlots ==
  /\ pointers = <<>>
  /\ unused = <<>>
  /\ inst = [i \in Insts |-> [made |-> FALSE, parser |-> 0, id |-> NoId,
                              expand |-> TRUE]]
  /\ eng = [a \in Addrs |-> Freed]
  /\ live = {}
  /\ hist = StaticInit
  /\ lastCall = NoCall

\* new XmlParser({expandInternalEntities}) building object i at address a
SlotsNew(i, a, expand) ==
  /\ ~inst[i].made
  /\ \A j \in Insts : j < i => inst[j].made
  /\ eng[a] = Freed
  /\ LET r   == Pointers_add(Table, i)
         reg == XmlParser_registerHandlers(hist, expand)
     IN /\ pointers' = r.pointers
        /\ unused' = r.unused
        /\ inst' = [inst EXCEPT ![i] = [made |-> TRUE, parser |-> a,
                                        id |-> r.index, expand |-> expand]]
        /\ eng' = [eng EXCEPT ![a] =
                     RegisterHandlers(EngineSetUserData(NewParser, r.index))]
        /\ live' = live \cup {r.index}
        /\ hist' = reg.st
        /\ lastCall' = [op |-> "new", inst |-> i, threw |-> "none",
                        set |-> reg.set, slotsBefore |-> hist]

\* p.reset()
SlotsReset(i) ==
  /\ inst[i].made
  /\ IF inst[i].parser = 0
     THEN /\ lastCall' = [op |-> "reset", inst |-> i,
                          threw |-> StateCheck(inst[i]), set |-> <<>>,
                          slotsBefore |-> hist]
          /\ UNCHANGED <<pointers, unused, inst, eng, live, hist>>
     ELSE
     LET a   == inst[i].parser
         reg == XmlParser_registerHandlers(hist, inst[i].expand)
     IN /\ eng' = [eng EXCEPT ![a] = XmlParser_reset(eng[a])]
        /\ hist' = reg.st
        /\ lastCall' = [op |-> "reset", inst |-> i, threw |-> "none",
                        set |-> reg.set, slotsBefore |-> hist]
        /\ UNCHANGED <<pointers, unused, inst, live>>

\* p.destroy()
SlotsDestroy(i) ==
  /\ inst[i].made
  /\ LET r == XmlParser_destroy(Table, inst[i])
     IN /\ pointers' = r.tbl.pointers
        /\ unused' = r.tbl.unused
        /\ inst' = [inst EXCEPT ![i] = r.me]
        /\ eng' = [a \in Addrs |-> IF a \in r.free THEN Freed ELSE eng[a]]
        /\ live' = live \ r.removed
        /\ lastCall' = [op |-> "destroy", inst |-> i,
                        threw |-> IF r.threw THEN "AlreadyDeleted"
                                  ELSE "none",
                        set |-> <<>>, slotsBefore |-> hist]
        /\ UNCHANGED hist

NextSlots ==
  \/ \E i \in Insts, a \in Addrs, expand \in BOOLEAN : SlotsNew(i, a, expand)
  \/ \E i \in Insts : SlotsReset(i)
  \/ \E i \in Insts : SlotsDestroy(i)

SpecSlots == InitSlots /\ [][NextSlots]_vars

\* C36: the function table holds the 19 trampolines the static initializer
\* installed, one per event kind and nothing else, whatever instances were
\* built, reset or destroyed since; no operation on an instance changes it,
\* and the handlers an instance registers are these slots.
C36_SlotsBuiltOnce ==
  /\ hist = StaticInit
  /\ ~hist.threw
  /\ Len(hist.fnTable) = 19
  /\ Cardinality(EventKinds) = 19
  /\ \A ev \in EventKinds :
       /\ hist.CB_TYPES[ev] \in 1..19
       /\ hist.fnTable[hist.CB_TYPES[ev]][2] = ev
       /\ \A other \in EventKinds :
            hist.CB_TYPES[other] = hist.CB_TYPES[ev] => other = ev
  /\ lastCall.op \in {"new", "reset", "destroy"} =>
       /\ lastCall.slotsBefore = hist
       /\ \A k \in 1..Len(lastCall.set) : lastCall.set[k][2] \in 1..19

\* Both instances were built, one has since been destroyed, and the other
\* has just been reset and registered its 19 handlers again.
C36_Witness ==
  /\ lastCall.op = "reset"
  /\ lastCall.threw = "none"
  /\ Len(lastCall.set) = 19
  /\ \E i \in Insts : inst[i].made /\ inst[i].parser = 0
  /\ \A i \in Insts : inst[i].made

\* ------------------------------------------------ events and listeners
\* The most listeners registered on the instance at once.
MaxListeners == 2

\* The listeners of an instance record me, me.on, are the (event, does)
\* pairs in the order on() registered them.
HasListener(me, eventName) ==
  \E k \in 1..Len(me.on) : me.on[k].event = eventName

\* r is the running result of a handler: me - the instance record,
\* invoked - the listener invocations so far, emits - the calls of emit so
\* far (each with the part of invoked it led to), threw - the exception
\* raised ("none" for none), done - the handler has returned, ret - the
\* value returned last, eng - the engine heap, engineCalls - the calls made
\* into the engine, eparser - the nested parser of _externalEntityRef.
Handling(me, heap) ==
  [me |-> me, invoked |-> <<>>, emits |-> <<>>, threw |-> "none",
   done |-> FALSE, ret |-> FALSE, eng |-> heap, engineCalls |-> <<>>,
   eparser |-> 0]

\* One listener invocation of EventEmitter.emit: listener k of me.on is
\* called with args.  What a listener does: it returns, it raises, or it
\* sets the instance's parser field to null and returns (as the 'comment'
\* listener of test 'base' does).
CallListener(r, k, eventName, args) ==
  [r EXCEPT
     !.me      = IF r.me.on[k].does = "nulls"
                 THEN [r.me EXCEPT !.parser = 0] ELSE r.me,
     !.invoked = Append(@, [listener |-> k, on |-> eventName, args |-> args]),
     !.threw   = IF r.me.on[k].does = "raises" THEN "ListenerError" ELSE "none",
     !.ret     = TRUE]

\* The listeners of eventName from the k-th registration on, in the order
\* they were registered; a listener that raises ends the emission.
RECURSIVE CallListeners(_, _, _, _)
CallListeners(r, k, eventName, args) ==
  IF r.threw /= "none" \/ k > Len(r.me.on) THEN r
  ELSE IF r.me.on[k].event /= eventName
  THEN CallListeners(r, k + 1, eventName, args)
  ELSE CallListeners(CallListener(r, k, eventName, args), k + 1,
                     eventName, args)

\* EventEmitter.prototype.emit of Node: an 'error' event nobody listens to
\* is raised as an exception; otherwise the listeners are called in order
\* and the result says whether there were any.
EventEmitter_emit(r, eventName, args) ==
  IF r.threw /= "none" THEN r
  ELSE IF ~HasListener(r.me, eventName)
  THEN IF eventName = "error"
       THEN [r EXCEPT !.threw = args[1], !.ret = FALSE]
       ELSE [r EXCEPT !.ret = FALSE]
  ELSE CallListeners(r, 1, eventName, args)

\* The second statement of XmlParser.emit and its return (lines 808-809):
\* r1 is the result of the first.
XmlParser_emitStar(r1, eventName, args) ==
  IF r1.threw /= "none" THEN r1
  ELSE [EventEmitter_emit(r1, "*", <<eventName>> \o args)
          EXCEPT !.ret = r1.ret]

\* emit that copies the event onto '*' first.
XmlParser_emit_StarFirst(r, eventName, args) ==
  EventEmitter_emit(EventEmitter_emit(r, "*", <<eventName>> \o args),
                    eventName, args)

\* XmlParser.emit (lines 804-810) with the listeners of the instance.
XmlParser_emit(r, eventName, args) ==
  XmlParser_emitStar(EventEmitter_emit(r, eventName, args), eventName, args)

\* r2 is the outcome of an emit that began after n0 listener invocations:
\* the call is added to the log.
EmitLogged(n0, r2, eventName, args) ==
  [r2 EXCEPT !.emits = Append(@, [on |-> eventName, args |-> args,
                                  first |-> n0 + 1,
                                  last |-> Len(r2.invoked),
                                  threw |-> r2.threw])]

\* this.emit(eventName, ...args) as a statement of a handler: skipped when
\* an earlier statement raised.
ThisEmit(r, eventName, args) ==
  IF r.threw /= "none" THEN r
  ELSE EmitLogged(Len(r.invoked), XmlParser_emit(r, eventName, args),
                  eventName, args)

\* XmlParser._simpleEvent (lines 1253-1257)
XmlParser_simpleEvent(r, event, args) == ThisEmit(r, event, args)

\* Pointers.call from a trampoline (pointers.js lines 76-88): the handler
\* runs on the object under the user-data handle h, and the call raises
\* when there is none.
TrampolineRaises(tbl, h) == Pointers_get(tbl, h) = Absent

\* ------------------------------------------ handlers with engine calls
\* The handler is still running: nothing raised and it has not returned.
Running(r) == r.threw = "none" /\ ~r.done

\* return v
Return(r, v) == IF Running(r) THEN [r EXCEPT !.done = TRUE, !.ret = v] ELSE r

\* throw exc
Throw(r, exc) == IF Running(r) THEN [r EXCEPT !.threw = exc] ELSE r

\* A call into the engine, stamped with the number of listener invocations
\* made before it.
EngineCall(r, f, a) ==
  [r EXCEPT !.engineCalls =
              Append(@, [f |-> f, a |-> a, after |-> Len(r.invoked)])]

\* XmlParser._elementDecl without its finally: the content model is freed
\* only when the emission returned.
XmlParser_elementDeclFinally_Skipped(r1, model) ==
  IF r1.threw = "none" /\ r1.me.parser /= 0
  THEN EngineCall(r1, "XML_FreeContentModel", model)
  ELSE r1

\* The finally block of XmlParser._elementDecl (lines 1000-1004): r1 is the
\* outcome of the try block.
XmlParser_elementDeclFinally(r1, model) ==
  IF r1.me.parser /= 0
  THEN EngineCall(r1, "XML_FreeContentModel", model)
  ELSE r1

\* XmlParser._elementDecl (lines 995-1005): the host-side tree is built from
\* the engine's content model, emitted, and the engine's copy freed.
XmlParser_elementDecl(r, event, nm, model) ==
  XmlParser_elementDeclFinally(ThisEmit(r, event, <<nm, "Model">>), model)

\* The entity name _externalEntityRef looks for in the context string: the
\* first of its form-feed separated pieces without '=' (<<>> for none).  A
\* piece is its text and whether it contains '='.
RECURSIVE FindName(_)
FindName(pieces) ==
  IF Len(pieces) = 0 THEN <<>>
  ELSE IF ~pieces[1].eq THEN <<pieces[1].text>>
  ELSE FindName(Tail(pieces))

\* Lines 1121-1133: systemEntity is not a function.
XmlParser_skippedEntity(r, context) ==
  Return(IF FindName(context) = <<>>
         THEN ThisEmit(r, "error", <<"UnrecognizedSkippedEntity">>)
         ELSE ThisEmit(r, "skippedEntity", <<FindName(context)[1], "false">>),
         1)

\* XML_ExternalEntityParserCreate of the engine: the address of the new
\* parser, 0 when the heap has no room for one.
FreeAddr(heap) ==
  IF \E a \in Addrs : heap[a] = Freed
  THEN CHOOSE a \in Addrs : heap[a] = Freed /\ \A b \in Addrs :
                              heap[b] = Freed => a <= b
  ELSE 0

\* The new parser shares the handlers and the user data of its parent.
ExternalEntityParser(parent) ==
  [NewParser EXCEPT !.userData = parent.userData,
                    !.handlers = parent.handlers,
                    !.sep = parent.sep]

\* XML_ExternalEntityParserCreate handing out a parser that carries no
\* handle of its parent.
XML_ExternalEntityParserCreate_NoUserData(r, a, parser) ==
  IF ~Running(r) THEN r
  ELSE IF a = 0
  THEN [EngineCall(r, "XML_ExternalEntityParserCreate", 0)
          EXCEPT !.eparser = 0]
  ELSE [EngineCall(r, "XML_ExternalEntityParserCreate", a)
          EXCEPT !.eparser = a,
                 !.eng = [r.eng EXCEPT ![a] =
                            EngineSetUserData(
                              ExternalEntityParser(r.eng[parser]), 0)]]

\* XmlParser.XML_ExternalEntityParserCreate (lines 360-367) from the parser
\* at address parser, the address kept in r.eparser.
XML_ExternalEntityParserCreate(r, a, parser) ==
  IF ~Running(r) THEN r
  ELSE IF a = 0
  THEN [EngineCall(r, "XML_ExternalEntityParserCreate", 0)
          EXCEPT !.eparser = 0]
  ELSE [EngineCall(r, "XML_ExternalEntityParserCreate", a)
          EXCEPT !.eparser = a,
                 !.eng = [r.eng EXCEPT ![a] =
                            ExternalEntityParser(r.eng[parser])]]

\* typeof base === 'string'
IsString(base) == base \in {"uri", "empty"}

\* XML_SetBase that hands any base to the engine.
XML_SetBase_Lenient(r, a, base) ==
  IF ~Running(r) THEN r ELSE EngineCall(r, "XML_SetBase", a)

\* XmlParser.XML_SetBase (lines 446-451) as a statement of a handler or of
\* the constructor.
XML_SetBase(r, a, base) ==
  IF ~Running(r) THEN r
  ELSE IF ~IsString(base) THEN Throw(r, "BaseNotString")
  ELSE EngineCall(r, "XML_SetBase", a)

\* XmlParser.XML_ParserFree (lines 375-377) as a statement of a handler.
XML_ParserFree(r, a) ==
  IF ~Running(r) THEN r
  ELSE [EngineCall(r, "XML_ParserFree", a)
          EXCEPT !.eng = [r.eng EXCEPT ![a] = Freed]]

\* The bytes of a token of entity text: <!--text--> for a comment, the
\* four letters of junk.
TokenBytes(token) == IF token = "junk" THEN 4 ELSE Len(token) + 7

\* The engine parsing the text of an external entity, token by token: a
\* comment is reported to the comment handler through its trampoline once
\* its last byte has arrived, junk is a syntax error at its first byte.
\* The loop of XmlParser.XML_Parse (lines 413-436) hands the engine the
\* next sub-chunk when the bytes fed so far are used up: pos is where the
\* first token left begins and fed the number of bytes handed over.  The
\* status is left in r.ret.
RECURSIVE EntityRun(_, _, _, _, _, _)
EntityRun(r, tbl, a, tokens, pos, fed) ==
  IF r.threw /= "none" THEN r
  ELSE IF Len(tokens) = 0 THEN [r EXCEPT !.ret = XML_STATUS_OK]
  ELSE IF (IF tokens[1] = "junk" THEN pos >= fed
           ELSE pos + TokenBytes(tokens[1]) > fed)
  THEN EntityRun(EngineCall(r, "XML_Parse", a), tbl, a, tokens, pos,
                 fed + CHUNK_SIZE)
  ELSE IF tokens[1] = "junk"
  THEN [r EXCEPT !.ret = XML_STATUS_ERROR,
                 !.eng = [r.eng EXCEPT ![a].errorCode = XML_Error.SYNTAX]]
  ELSE IF TrampolineRaises(tbl, XML_GetUserData(r.eng[a]))
  THEN [r EXCEPT !.threw = "TypeError"]
  ELSE EntityRun(XmlParser_simpleEvent(r, "comment", <<tokens[1]>>),
                 tbl, a, Tail(tokens), pos + TokenBytes(tokens[1]), fed)

\* XmlParser.XML_Parse (lines 396-437) of entity data on the nested parser:
\* data that is undefined or null raises where its length is read (line
\* 401), other data that is no string or byte array raises at lines
\* 404-408, the rest goes to the engine, the first sub-chunk always.
XML_ParseEntity(r, tbl, a, data) ==
  IF ~Running(r) THEN r
  ELSE IF data.nullish THEN Throw(r, "TypeError")
  ELSE IF ~data.bytes THEN Throw(r, "ExpectedChunk")
  ELSE EntityRun(EngineCall(r, "XML_Parse", a), tbl, a, data.tokens, 0,
                 CHUNK_SIZE)

\* new XmlParseError(parser) (lines 28-38) as a statement of a handler: the
\* engine calls it makes.
NewXmlParseError(r, a) ==
  EngineCall(
    EngineCall(
      EngineCall(
        EngineCall(
          EngineCall(
            EngineCall(r, "XML_GetErrorCode", a),
            "XML_ErrorString", r.eng[a].errorCode),
          "XML_GetCurrentLineNumber", a),
        "XML_GetCurrentColumnNumber", a),
      "XML_GetCurrentByteIndex", a),
    "XML_GetBase", a)

\* Lines 1160-1163: the outcome of the nested feed; r.ret holds its status.
XmlParser_entityParsed(r) ==
  IF ~Running(r) THEN r
  ELSE IF r.ret /= 1
  THEN [ThisEmit(NewXmlParseError(r, r.eparser), "error",
                 <<"XmlParseError">>) EXCEPT !.ret = 0]
  ELSE r

\* Lines 1165-1168: the end of _externalEntityRef; r2.ret holds ret.
XmlParser_entityDone(r2, a, base) ==
  Return(ThisEmit(XML_ParserFree(r2, a), "endBase", <<base>>), r2.ret)

\* Lines 1159-1168, where the nested parser exists.
XmlParser_entityFeed(r, tbl, ent) ==
  XmlParser_entityDone(
    XmlParser_entityParsed(
      XML_ParseEntity(XML_SetBase(r, r.eparser, ent.base), tbl, r.eparser,
                      ent.data)),
    r.eparser, ent.base)

\* Lines 1156-1158 and on: r is the outcome of
\* XML_ExternalEntityParserCreate.
XmlParser_entityCreated(r, tbl, ent) ==
  IF ~Running(r) THEN r
  ELSE IF r.eparser = 0
  THEN Return(ThisEmit(r, "error", <<"OutOfMemory">>), 0)
  ELSE XmlParser_entityFeed(r, tbl, ent)

\* The catch block of _externalEntityRef (lines 1146-1149).
XmlParser_resolveFailed(r, exc) == Return(ThisEmit(r, "error", <<exc>>), 0)

\* XmlParser._externalEntityRef (lines 1120-1169) for the engine parser at
\* address parser; res says what the host's systemEntity function does
\* when it is called: raise, return undefined, or return an entity with
\* base and data.
XmlParser_externalEntityRef(r, tbl, parser, context, res) ==
  IF r.me.systemEntity /= "function"
  THEN XmlParser_skippedEntity(r, context)
  ELSE IF r.me.parser = 0 THEN Return(r, 0)
  ELSE IF res.raises THEN XmlParser_resolveFailed(r, "IntentionalError")
  ELSE IF ~res.defined THEN Throw(r, "TypeError")
  ELSE XmlParser_entityCreated(
         XML_ExternalEntityParserCreate(
           ThisEmit(r, "startBase", <<res.base>>), FreeAddr(r.eng), parser),
         tbl, res)

\* ------------------------------------------ one instance, its callbacks
\* systemEntity options: not given, given but not a function, a function.
ResolverOpts == {"null", "number", "function"}
\* The listeners on() is called with.
ListenerKinds ==
  { [event |-> "comment", does |-> "returns"],
    [event |-> "comment", does |-> "raises"],
    [event |-> "comment", does |-> "nulls"],
    [event |-> "error", does |-> "returns"],
    [event |-> "*", does |-> "returns"],
    [event |-> "*", does |-> "raises"],
    [event |-> "elementDecl", does |-> "raises"],
    [event |-> "elementDecl", does |-> "nulls"],
    [event |-> "startBase", does |-> "returns"] }

\* The instance the callbacks belong to: object 1, built by
\* new XmlParser({systemEntity}), its parser at address 1 and its handle 0.
InitCb ==
  /\ pointers = <<1>>
  /\ unused = <<>>
  /\ \E se \in ResolverOpts :
       inst = [i \in Insts |->
                 IF i = 1
                 THEN [made |-> TRUE, parser |-> 1, id |-> 0, on |-> <<>>,
                       systemEntity |-> se]
                 ELSE [made |-> FALSE, parser |-> 0, id |-> NoId,
                       on |-> <<>>, systemEntity |-> "null"]]
  /\ eng = [a \in Addrs |->
             IF a = 1 THEN RegisterHandlers(EngineSetUserData(NewParser, 0))
             ELSE Freed]
  /\ live = {0}
  /\ hist = [i \in Insts |-> IF i = 1 THEN "fresh" ELSE "unborn"]
  /\ lastCall = NoCall

\* p.on(eventName, listener)
On(l) ==
  /\ Len(inst[1].on) < MaxListeners
  /\ inst' = [inst EXCEPT ![1].on = Append(@, l)]
  /\ lastCall' = [op |-> "on", listener |-> l]
  /\ UNCHANGED <<pointers, unused, eng, live, hist>>

\* The engine made callback op and the handler ended as r says.
CalledBack(op, r) ==
  /\ inst' = [inst EXCEPT ![1] = r.me]
  /\ eng' = r.eng
  /\ lastCall' = [op |-> op, me |-> inst[1], heap |-> eng] @@ r
  /\ UNCHANGED <<pointers, unused, live, hist>>

\* The engine reports a comment while it parses for the instance.
Comment(text) ==
  IF TrampolineRaises(Table, XML_GetUserData(eng[1]))
  THEN CalledBack("comment",
                  [Handling(inst[1], eng) EXCEPT !.threw = "TypeError"])
  ELSE CalledBack("comment",
                  XmlParser_simpleEvent(Handling(inst[1], eng), "comment",
                                        <<text>>))

\* The text c repeated 2^n times.
RECURSIVE Doubled(_, _)
Doubled(c, n) == IF n = 0 THEN c ELSE Doubled(c \o c, n - 1)

\* What systemEntity is seen to do: raise; return undefined; return an
\* entity without base; return an entity without data; return data that
\* is no string or byte array (a number); return an entity whose text is a
\* comment; return one whose text is a comment and then junk; return one
\* whose text is a comment of 8199 bytes.
NoData == [bytes |-> FALSE, nullish |-> TRUE, tokens |-> <<>>]
NotBytes == [bytes |-> FALSE, nullish |-> FALSE, tokens |-> <<>>]
Text(tokens) == [bytes |-> TRUE, nullish |-> FALSE, tokens |-> tokens]
Resolutions ==
  { [raises |-> TRUE, defined |-> FALSE, base |-> "undefined",
     data |-> NoData],
    [raises |-> FALSE, defined |-> FALSE, base |-> "undefined",
     data |-> NoData],
    [raises |-> FALSE, defined |-> TRUE, base |-> "undefined",
     data |-> Text(<<"c1">>)],
    [raises |-> FALSE, defined |-> TRUE, base |-> "uri", data |-> NoData],
    [raises |-> FALSE, defined |-> TRUE, base |-> "uri", data |-> NotBytes],
    [raises |-> FALSE, defined |-> TRUE, base |-> "uri",
     data |-> Text(<<"c1">>)],
    [raises |-> FALSE, defined |-> TRUE, base |-> "uri",
     data |-> Text(<<"c1", "junk">>)],
    [raises |-> FALSE, defined |-> TRUE, base |-> "uri",
     data |-> Text(<<Doubled("c", 13)>>)] }

\* Context strings of the engine: an entity name, or namespace bindings
\* only.
Contexts ==
  { <<[text |-> "ent", eq |-> FALSE]>>, <<[text |-> "n=u", eq |-> TRUE]>> }

\* The engine reports an element declaration with its content model.
ElementDecl ==
  IF TrampolineRaises(Table, XML_GetUserData(eng[1]))
  THEN CalledBack("elementDecl",
                  [Handling(inst[1], eng) EXCEPT !.threw = "TypeError"])
  ELSE CalledBack("elementDecl",
                  XmlParser_elementDecl(Handling(inst[1], eng), "elementDecl",
                                        "doc", 1))

\* The engine asks for an external entity (_externalEntityRefTrampoline,
\* lines 249-261).
ExternalEntityRef(context, res) ==
  IF TrampolineRaises(Table, XML_GetUserData(eng[1]))
  THEN CalledBack("externalEntityRef",
                  [resolution |-> res, context |-> context]
                    @@ [Handling(inst[1], eng) EXCEPT !.threw = "TypeError"])
  ELSE CalledBack("externalEntityRef",
                  [resolution |-> res, context |-> context]
                    @@ XmlParser_externalEntityRef(Handling(inst[1], eng),
                                                   Table, 1, context, res))

NextCb ==
  \/ \E l \in ListenerKinds : On(l)
  \/ \E text \in {"hi"} : Comment(text)
  \/ ElementDecl
  \/ \E context \in Contexts, res \in Resolutions :
       ExternalEntityRef(context, res)

SpecCb == InitCb /\ [][NextCb]_vars

\* ---------------------------- external entities, the parent's handle not 0
\* Two instances were built, the second one first (parser at address 2,
\* handle 0), then the one the callbacks belong to (object 1, built by
\* new XmlParser({systemEntity}), parser at address 1, handle 1), and the
\* second was destroyed: handle 0 is free again.
InitEntity ==
  /\ pointers = <<Absent, 1>>
  /\ unused = <<0>>
  /\ \E se \in ResolverOpts :
       inst = [i \in Insts |->
                 IF i = 1
                 THEN [made |-> TRUE, parser |-> 1, id |-> 1, on |-> <<>>,
                       systemEntity |-> se]
                 ELSE [made |-> i = 2, parser |-> 0, id |-> NoId,
                       on |-> <<>>, systemEntity |-> "null"]]
  /\ eng = [a \in Addrs |->
             IF a = 1 THEN RegisterHandlers(EngineSetUserData(NewParser, 1))
             ELSE Freed]
  /\ live = {1}
  /\ hist = [i \in Insts |->
               IF i = 1 THEN "fresh"
               ELSE IF i = 2 THEN "destroyed" ELSE "unborn"]
  /\ lastCall = NoCall

SpecEntity == InitEntity /\ [][NextCb]_vars

\* The last callback was _externalEntityRef and it fed the nested parser an
\* entity whose text begins with a comment.
EntityFed ==
  /\ lastCall.op = "externalEntityRef"
  /\ \E k \in 1..Len(lastCall.engineCalls) :
       lastCall.engineCalls[k].f = "XML_Parse"
  /\ Len(lastCall.resolution.data.tokens) > 0

\* C35: external-entity resolution leaves the Handle Table as it was (no
\* handle added, none removed), and the callbacks of the nested parser carry
\* the parent's handle: none fails for want of a table entry, and when
\* nothing raised, the comment of the entity was emitted on the parent.
C35_EntityBorrowsHandle ==
  /\ pointers = <<Absent, 1>>
  /\ unused = <<0>>
  /\ live = {1}
  /\ EntityFed =>
       /\ lastCall.threw /= "TypeError"
       /\ lastCall.threw = "none" =>
            \E k \in 1..Len(lastCall.emits) :
              /\ lastCall.emits[k].on = "comment"
              /\ lastCall.emits[k].args =
                   <<lastCall.resolution.data.tokens[1]>>

\* A nested parser was fed and its comment reached a listener of the parent.
C35_Witness ==
  /\ EntityFed
  /\ lastCall.threw = "none"
  /\ inst[1].id = 1
  /\ \E k \in 1..Len(lastCall.emits) :
       /\ lastCall.emits[k].on = "comment"
       /\ lastCall.emits[k].last >= lastCall.emits[k].first

\* The invocations emit owes the listeners of eventName on the instance
\* record me, in the order on() registered them.
RECURSIVE Owed(_, _, _, _)
Owed(me, k, eventName, args) ==
  IF k > Len(me.on) THEN <<>>
  ELSE (IF me.on[k].event = eventName
        THEN <<[listener |-> k, on |-> eventName, args |-> args]>>
        ELSE <<>>) \o Owed(me, k + 1, eventName, args)

\* What the listeners of the event and then the listeners of '*' are owed
\* for the logged call m of emit.
OwedBoth(me, m) ==
  Owed(me, 1, m.on, m.args) \o Owed(me, 1, "*", <<m.on>> \o m.args)

IsPrefix(s, t) == Len(s) <= Len(t) /\ s = SubSeq(t, 1, Len(s))

HandlerOps == {"comment", "elementDecl", "externalEntityRef"}

\* C11 as stated: every call of emit invokes the listeners of the event and
\* then, with the event name put before the same arguments, the listeners
\* of '*', so that '*' sees every event.
C11_WildcardSeesEveryEvent ==
  lastCall.op \in HandlerOps =>
    \A n \in 1..Len(lastCall.emits) :
      LET m == lastCall.emits[n]
      IN SubSeq(lastCall.invoked, m.first, m.last) = OwedBoth(lastCall.me, m)

\* C11: every call of emit that returns has invoked the listeners of the
\* event and then, immediately after and with the event name put before the
\* same arguments, the listeners of '*'; a call of emit that raises (a
\* listener raised, or the event is 'error' and has no listener) has
\* invoked a beginning of that sequence, so no '*' listener ever runs
\* before a listener of the event, and nothing at all when it is an
\* 'error' nobody listens to.
C11_WildcardAfterSpecific ==
  lastCall.op \in HandlerOps =>
    \A n \in 1..Len(lastCall.emits) :
      LET m   == lastCall.emits[n]
          seg == SubSeq(lastCall.invoked, m.first, m.last)
      IN /\ IsPrefix(seg, OwedBoth(lastCall.me, m))
         /\ m.threw = "none" => seg = OwedBoth(lastCall.me, m)
         /\ (m.on = "error" /\ ~HasListener(lastCall.me, "error")) =>
              seg = <<>> /\ m.threw /= "none"

\* C11 witness: a comment reported to an instance with a listener of
\* 'comment' and a listener of '*' registered before it: the '*' listener
\* was invoked second, with the event name and the text.
C11_Witness ==
  /\ lastCall.op = "comment"
  /\ lastCall.threw = "none"
  /\ Len(lastCall.me.on) = 2
  /\ lastCall.me.on[1].event = "*"
  /\ lastCall.me.on[2].event = "comment"
  /\ lastCall.invoked =
       << [listener |-> 2, on |-> "comment", args |-> <<"hi">>],
          [listener |-> 1, on |-> "*",
           args |-> <<"comment", "hi">>] >>

\* The last call was _externalEntityRef reaching the host's systemEntity
\* function, which raised.
ResolverRaised ==
  /\ lastCall.op = "externalEntityRef"
  /\ lastCall.me.systemEntity = "function"
  /\ lastCall.me.parser /= 0
  /\ lastCall.resolution.raises

\* C14: when systemEntity raises, nothing propagates out of
\* _externalEntityRef: the 'error' event is emitted, the callback returns
\* 0, no nested parser is created and no startBase is emitted.
C14_ResolverErrorContained ==
  ResolverRaised =>
    /\ lastCall.threw = "none"
    /\ lastCall.done /\ lastCall.ret = 0
    /\ Len(lastCall.emits) = 1
    /\ lastCall.emits[1].on = "error"
    /\ lastCall.engineCalls = <<>>

\* C15: every nested parser _externalEntityRef created is freed by the time
\* the callback is left, whether it returns or raises.
C15_NestedParserFreed ==
  lastCall.op = "externalEntityRef" =>
    \A n \in 1..Len(lastCall.engineCalls) :
      LET c == lastCall.engineCalls[n]
      IN (c.f = "XML_ExternalEntityParserCreate" /\ c.a /= 0) =>
           /\ \E m \in (n + 1)..Len(lastCall.engineCalls) :
                /\ lastCall.engineCalls[m].f = "XML_ParserFree"
                /\ lastCall.engineCalls[m].a = c.a
           /\ eng[c.a] = Freed

\* C16: every startBase emitted by _externalEntityRef is followed within the
\* same callback by exactly one endBase with the same uri, and the events
\* of the nested entity are emitted between the two.
C16_BaseBracketed ==
  lastCall.op = "externalEntityRef" =>
    \A n \in 1..Len(lastCall.emits) :
      lastCall.emits[n].on = "startBase" =>
        /\ \E m \in (n + 1)..Len(lastCall.emits) :
             /\ lastCall.emits[m].on = "endBase"
             /\ lastCall.emits[m].args = lastCall.emits[n].args
             /\ \A k \in 1..Len(lastCall.emits) :
                  lastCall.emits[k].on = "comment" => n < k /\ k < m
        /\ Cardinality({m \in 1..Len(lastCall.emits) :
                          lastCall.emits[m].on = "endBase"}) = 1

\* The calls of XML_FreeContentModel the last callback made.
ModelFrees ==
  {n \in 1..Len(lastCall.engineCalls) :
     lastCall.engineCalls[n].f = "XML_FreeContentModel"}

\* C17 as stated: every elementDecl callback frees the engine's content
\* model exactly once, after the emission, also when a listener raises.
C17_ModelFreedOnce ==
  lastCall.op = "elementDecl" =>
    /\ Cardinality(ModelFrees) = 1
    /\ \A n \in ModelFrees :
         lastCall.engineCalls[n].after = Len(lastCall.invoked)

\* C17: an elementDecl callback frees the engine's content model exactly
\* once, after every listener invocation of the emission, whether the
\* emission returned or a listener raised, provided the instance still has
\* its parser when the emission ends; if the parser field has been cleared
\* (before the callback or by a listener during it) the content model is not
\* freed at all.
C17_ModelFreedIfParser ==
  lastCall.op = "elementDecl" =>
    /\ Cardinality(ModelFrees) = IF inst[1].parser /= 0 THEN 1 ELSE 0
    /\ \A n \in ModelFrees :
         /\ lastCall.engineCalls[n].after = Len(lastCall.invoked)
         /\ lastCall.engineCalls[n].a = 1
    /\ Len(lastCall.emits) = 1
    /\ lastCall.emits[1].on = "elementDecl"

\* C17 witness: an elementDecl callback during which a listener of
\* 'elementDecl' raised: the exception left the handler and the content
\* model was freed, once, after the listener ran.
C17_Witness ==
  /\ lastCall.op = "elementDecl"
  /\ lastCall.threw = "ListenerError"
  /\ Len(lastCall.invoked) = 1
  /\ lastCall.invoked[1].on = "elementDecl"
  /\ lastCall.engineCalls =
       <<[f |-> "XML_FreeContentModel", a |-> 1, after |-> 1]>>

\* ------------------------------------------ constructor with options
\* The separator option: a string, XmlParser.NO_NAMESPACES, another symbol.
Separators == {"|", "NO_NAMESPACES", "otherSymbol"}
\* The base option: not given (null), a string that is not empty, the empty
\* string, an object, the number 0.
Bases == {"null", "uri", "empty", "object", "zero"}

\* if (this.opts.base) (line 743): null, '' and 0 are falsy.
Truthy(base) == base \in {"uri", "object"}

\* Lines 722-734: the engine parser is created at address a, unless the
\* separator is an unknown symbol.
XmlParser_createParser(r, a, separator) ==
  IF separator = "otherSymbol" THEN Throw(r, "UnknownSeparatorSymbol")
  ELSE [(IF separator = "NO_NAMESPACES"
         THEN EngineCall(r, "XML_ParserCreate", a)
         ELSE EngineCall(EngineCall(r, "XML_ParserCreateNS", a),
                         "XML_SetReturnNSTriplet", a))
          EXCEPT !.me.parser = a,
                 !.eng = [r.eng EXCEPT ![a] =
                            [NewParser EXCEPT !.sep = separator]]]

\* Lines 740-741 with the outcome added of Pointers.add(this).
XmlParser_gotId(r, added) ==
  [EngineCall(r, "XML_SetUserData", r.me.parser)
     EXCEPT !.tbl = [pointers |-> added.pointers, unused |-> added.unused],
            !.me.id = added.index,
            !.eng = [r.eng EXCEPT ![r.me.parser] =
                       EngineSetUserData(@, added.index)]]

\* Lines 740-741: this.id = #pointers.add(this); XML_SetUserData.
XmlParser_addSelf(r, obj) ==
  IF ~Running(r) THEN r ELSE XmlParser_gotId(r, Pointers_add(r.tbl, obj))

\* Line 744-746: r1 is the outcome of XmlParser.XML_SetBase and status what
\* the engine answered, when it was asked.
XmlParser_baseSet(r1, status) ==
  IF Running(r1) /\ status /= 1 THEN Throw(r1, "SetBaseFailed") ELSE r1

\* Lines 743-747: the base option, when it is truthy; status is the
\* engine's answer to XML_SetBase (1, or 0 when it has no memory).
XmlParser_setBase(r, base, status) ==
  IF Running(r) /\ Truthy(base)
  THEN XmlParser_baseSet(XML_SetBase(r, r.me.parser, base), status)
  ELSE r

\* Lines 749-772: the rest of the constructor ends in _registerHandlers.
XmlParser_registered(r) ==
  IF ~Running(r) THEN r
  ELSE [EngineCall(r, "XML_SetHandler", r.me.parser)
          EXCEPT !.me.made = TRUE,
                 !.eng = [r.eng EXCEPT ![r.me.parser] = RegisterHandlers(@)]]

\* new XmlParser({separator, base}) building object obj (lines 693-773);
\* setBase is the engine's answer to XML_SetBase.
XmlParser_constructor(tbl, heap, obj, a, opts, setBase) ==
  XmlParser_registered(
    XmlParser_setBase(
      XmlParser_addSelf(
        XmlParser_createParser(
          [tbl |-> tbl]
            @@ Handling([made |-> FALSE, parser |-> 0, id |-> NoId], heap),
          a, opts.separator),
        obj),
      opts.base, setBase))

\* The constructor call for object i ended as r says.  An object whose
\* constructor raised is never seen by the caller.
Constructed(i, opts, setBase, r) ==
  /\ pointers' = r.tbl.pointers
  /\ unused' = r.tbl.unused
  /\ inst' = [inst EXCEPT ![i] = r.me]
  /\ eng' = r.eng
  /\ live' = live \cup (IF r.me.id = NoId THEN {} ELSE {r.me.id})
  /\ hist' = [hist EXCEPT ![i] = IF r.threw = "none" THEN "fresh"
                                 ELSE "failed"]
  /\ lastCall' = [op |-> "new", inst |-> i, opts |-> opts,
                  setBase |-> setBase, threw |-> r.threw, ret |-> r.me.id, liveBefore |-> live,
                  tableBefore |-> Table,
                  engineCalls |-> r.engineCalls, delivered |-> <<>>]

\* new XmlParser(opts).  Objects are numbered in the order the constructor
\* is called, and the engine returns the lowest free address a and answers
\* setBase to XML_SetBase.
ConstructWith(i, a, opts, setBase) ==
  /\ hist[i] = "unborn"
  /\ \A j \in Insts : j < i => hist[j] /= "unborn"
  /\ eng[a] = Freed
  /\ \A b \in Addrs : b < a => eng[b] /= Freed
  /\ Constructed(i, opts, setBase,
                 XmlParser_constructor(Table, eng, i, a, opts, setBase))

NextCtor ==
  \/ \E i \in Insts, a \in Addrs, separator \in Separators, base \in Bases,
        setBase \in {0, 1} :
       ConstructWith(i, a, [separator |-> separator, base |-> base], setBase)
  \/ \E i \in Insts, doc \in {DocFoo, DocBad} :
       Pending(i) <= MaxPending /\ Parse(i, doc, 1)
  \/ \E i \in Insts : Destroy(i)

SpecCtor == Init /\ [][NextCtor]_vars

\* C18: the live entries of the Handle Table are exactly the instances
\* whose constructor returned and that have not been destroyed, each under
\* its own id; a constructor call that raised has left no entry.
C18_TableIsLiveInstances ==
  /\ \A i \in Insts :
       Live(i) => inst[i].id /= NoId /\ Pointers_get(Table, inst[i].id) = i
  /\ \A k \in 1..Len(pointers) :
       pointers[k] /= Absent =>
         Live(pointers[k]) /\ inst[pointers[k]].id = k - 1

\* C19 as stated: a constructor call with a symbol separator other than
\* NO_NAMESPACES, or with a base option that is not a string, raises.
C19_BadOptionsRaise ==
  (/\ lastCall.op = "new"
   /\ \/ lastCall.opts.separator = "otherSymbol"
      \/ lastCall.opts.base \in {"object", "zero"}) =>
    lastCall.threw /= "none"

\* The constructor called XML_SetBase of the engine.
BaseHandedOver ==
  \E k \in 1..Len(lastCall.engineCalls) :
     lastCall.engineCalls[k].f = "XML_SetBase"

\* C19: a constructor call with a symbol separator other than
\* NO_NAMESPACES raises before any engine parser or table entry exists; one
\* with a base option that is truthy and not a string raises as well; a
\* base option that is falsy (null, 0, the empty string) is taken as not
\* given and never reaches the engine; a string base that is not empty is
\* handed to the engine, and the call returns unless the engine refuses
\* the base.
C19_BadOptionsRaiseIfTruthy ==
  lastCall.op = "new" =>
    /\ lastCall.opts.separator = "otherSymbol" =>
         /\ lastCall.threw = "UnknownSeparatorSymbol"
         /\ lastCall.engineCalls = <<>>
         /\ Table = lastCall.tableBefore
    /\ (lastCall.opts.separator /= "otherSymbol"
        /\ lastCall.opts.base = "object") =>
         lastCall.threw = "BaseNotString" /\ ~BaseHandedOver
    /\ (lastCall.opts.separator /= "otherSymbol"
        /\ lastCall.opts.base \in {"null", "zero", "empty"}) =>
         lastCall.threw = "none" /\ Live(lastCall.inst) /\ ~BaseHandedOver
    /\ (lastCall.opts.separator /= "otherSymbol"
        /\ lastCall.opts.base = "uri") =>
         /\ BaseHandedOver
         /\ IF lastCall.setBase = 1
            THEN lastCall.threw = "none" /\ Live(lastCall.inst)
            ELSE lastCall.threw = "SetBaseFailed"

\* C19 witness: new XmlParser({base: {foo: 1}}) raised after its engine
\* parser had been created.
C19_Witness ==
  /\ lastCall.op = "new"
  /\ lastCall.opts = [separator |-> "|", base |-> "object"]
  /\ lastCall.threw = "BaseNotString"
  /\ lastCall.engineCalls /= <<>>
  /\ ~inst[lastCall.inst].made

\* ------------------------------------------------ names and their pieces
\* Longest name triple is called with.
MaxName == 4
\* The separators of the instances triple is called on: the default one,
\* a comma (src/unnamed/part_003:149), and NO_NAMESPACES.
TripleSeparators == {"|", ",", "NO_NAMESPACES"}
\* The characters of the names: two letters and the two separators.
NameChars == {"u", "f", "|", ","}
RECURSIVE NamesUpTo(_)
NamesUpTo(n) ==
  IF n = 0 THEN {<<>>}
  ELSE LET shorter == NamesUpTo(n - 1)
       IN shorter \cup {Append(s, c) : s \in {t \in shorter : Len(t) = n - 1},
                                       c \in NameChars}
Names == NamesUpTo(MaxName)

\* String.prototype.split with a one-character separator.
StringSplit(str, separator) == SplitOn(str, separator)

\* An element of the array split returned is there and is not ''.
HasPiece(parts, k) == Len(parts) >= k /\ parts[k] /= <<>>

\* triple that never reports a prefix.
XmlParser_triple_NoPrefix(separator, name) ==
  IF ~IsStringSeparator(separator)
  THEN [threw |-> FALSE, ret |-> [local |-> name]]
  ELSE LET parts == StringSplit(name, separator)
       IN IF ~HasPiece(parts, 2)
          THEN [threw |-> FALSE, ret |-> [local |-> parts[1]]]
          ELSE [threw |-> FALSE,
                ret |-> [ns |-> parts[1], local |-> parts[2]]]

\* XmlParser.triple on an instance with the given separator: whether it
\* raised, and the object returned.
XmlParser_triple(separator, name) ==
  IF ~IsStringSeparator(separator)
  THEN [threw |-> FALSE, ret |-> [local |-> name]]
  ELSE LET parts == StringSplit(name, separator)
       IN IF ~HasPiece(parts, 2)
          THEN [threw |-> FALSE, ret |-> [local |-> parts[1]]]
          ELSE IF ~HasPiece(parts, 3)
          THEN [threw |-> FALSE,
                ret |-> [ns |-> parts[1], local |-> parts[2]]]
          ELSE [threw |-> FALSE,
                ret |-> [ns |-> parts[1], local |-> parts[2],
                         prefix |-> parts[3]]]

\* The pieces of the names the engine builds; a namespace URI is any
\* attribute value, also one that holds a separator character.
Uris == {<<>>, <<"u">>, <<"u", "f">>, <<"u", "|">>, <<"u", ",">>}
Locals == {<<"f">>, <<"f", "u">>}
Prefixes == {<<>>, <<"u">>}

\* One instance, constructed with a string separator or with
\* NO_NAMESPACES; triple reads no other field of it.
InitTriple ==
  /\ \E separator \in TripleSeparators :
       inst = [separator |-> separator]
  /\ pointers = <<>>
  /\ unused = <<>>
  /\ eng = <<>>
  /\ live = {}
  /\ hist = <<>>
  /\ lastCall = NoCall

\* p.triple(name) returned or raised as r says.
Tripled(name, built, uri, local, prefix, r) ==
  /\ lastCall' = [op |-> "triple", separator |-> inst.separator,
                  name |-> name, built |-> built, uri |-> uri,
                  local |-> local, prefix |-> prefix,
                  threw |-> r.threw, ret |-> r.ret]
  /\ UNCHANGED <<pointers, unused, inst, eng, live, hist>>

\* p.triple(name) for any name
Triple(name) ==
  Tripled(name, FALSE, <<>>, <<>>, <<>>,
          XmlParser_triple(inst.separator, name))

\* The name of an event handed to p.triple by a listener; the engine builds
\* a name from a URI only when it accepted the declaration of that URI.
TripleOfEngineName(uri, local, prefix) ==
  /\ uri = <<>> => prefix = <<>>
  /\ (uri /= <<>> /\ IsStringSeparator(inst.separator)) =>
       AddBindingError(prefix, uri, inst.separator) = XML_Error.NONE
  /\ Tripled(EngineName(inst.separator, uri, local, prefix), TRUE,
             uri, local, prefix,
             XmlParser_triple(inst.separator,
                              EngineName(inst.separator, uri, local, prefix)))

NextTriple ==
  \/ \E name \in Names : Triple(name)
  \/ \E uri \in Uris, local \in Locals, prefix \in Prefixes :
       TripleOfEngineName(uri, local, prefix)

SpecTriple == InitTriple /\ [][NextTriple]_vars

\* The parts split cuts the name of the last call into.
LastParts == StringSplit(lastCall.name, lastCall.separator)

\* triple returned the pieces the name of the last call was built from.
PiecesRecovered ==
  /\ lastCall.ret.local = lastCall.local
  /\ "ns" \in DOMAIN lastCall.ret <=> lastCall.uri /= <<>>
  /\ lastCall.uri /= <<>> => lastCall.ret.ns = lastCall.uri
  /\ "prefix" \in DOMAIN lastCall.ret <=> lastCall.prefix /= <<>>
  /\ lastCall.prefix /= <<>> => lastCall.ret.prefix = lastCall.prefix

C30_TripleRaisesWithoutNamespaces ==
  (lastCall.op = "triple" /\ lastCall.separator = "NO_NAMESPACES") =>
    lastCall.threw

\* ------------------------------------------------- content models unpacked
\* enum XML_Content_Type of expat.h: EMPTY 1, ANY 2, MIXED 3, NAME 4,
\* CHOICE 5, SEQ 6; enum XML_Content_Quant: NONE 0, OPT 1, REP 2, PLUS 3.

\* A content model as the engine knows it: type, quant, name (<<>> for
\* none, else <<string>>) and kids, the content models of its children.
Leaf(type, quant, name) ==
  [type |-> type, quant |-> quant, name |-> name, kids |-> <<>>]
Group(type, quant, kids) ==
  [type |-> type, quant |-> quant, name |-> <<>>, kids |-> kids]

\* The strings of the engine's heap and the addresses they are stored at.
HeapStrings == <<"CHANNEL", "PROGRAM">>
\* expat.UTF8ToString(ptr)
UTF8ToString(ptr) == HeapStrings[ptr \div 1000]
\* The address of the name n (0, the null pointer, for none).
NamePtr(n) ==
  IF n = <<>> THEN 0
  ELSE 1000 * (CHOOSE k \in 1..Len(HeapStrings) : HeapStrings[k] = n[1])

\* The heap is the sequence of its 32-bit words, word w at heap[w + 1].
\* Five words written from word a on.
Write5(heap, a, words) ==
  [w \in DOMAIN heap |->
     IF w - 1 \in a..(a + 4) THEN words[w - a] ELSE heap[w]]

\* The engine builds the XML_Content array of a declaration: the record of
\* t at word a, the records of its children next to each other from the
\* first free word on, those of their children after them.
RECURSIVE PackNode(_, _, _, _)
RECURSIVE PackKids(_, _, _, _, _)
PackKidsNext(r, kids, base, c) == PackKids(r.heap, kids, base, r.free, c + 1)
PackKids(heap, kids, base, free, c) ==
  IF c > Len(kids) THEN [heap |-> heap, free |-> free]
  ELSE PackKidsNext(PackNode(heap, kids[c], base + 5 * (c - 1), free),
                    kids, base, c)
PackNode(heap, t, a, free) ==
  PackKids(Write5(heap, a,
                  <<t.type, t.quant, NamePtr(t.name), Len(t.kids),
                    IF Len(t.kids) = 0 THEN 0 ELSE 4 * free>>),
           t.kids, free, free + 5 * Len(t.kids), 1)

\* The number of records of a content model.
RECURSIVE Records(_)
RECURSIVE RecordsOfKids(_, _)
RecordsOfKids(kids, c) ==
  IF c > Len(kids) THEN 0 ELSE Records(kids[c]) + RecordsOfKids(kids, c + 1)
Records(t) == 1 + RecordsOfKids(t.kids, 1)

\* The heap after the engine built the model of t at byte offset 8.
PackedHeap(t) ==
  PackNode([w \in 1..(2 + 5 * Records(t)) |-> 0], t, 2, 7).heap

\* expat.HEAPU32.slice(a, a + 5)
HEAPU32_slice5(heap, a) == [k \in 1..5 |-> heap[a + k]]

\* _unpackModel whose loop over the children starts at the second one.
RECURSIVE XmlParser_unpackModel_FromOne(_, _, _)
RECURSIVE UnpackChildren_FromOne(_, _, _, _)
UnpackChildren_FromOne(heap, children, numchildren, c) ==
  IF c >= numchildren THEN <<>>
  ELSE <<XmlParser_unpackModel_FromOne(heap, children + (20 * c),
                                       [name |-> <<>>])>>
         \o UnpackChildren_FromOne(heap, children, numchildren, c + 1)
XmlParser_unpackModel_FromOne(heap, offset, model) ==
  [type     |-> HEAPU32_slice5(heap, offset \div 4)[1],
   quant    |-> HEAPU32_slice5(heap, offset \div 4)[2],
   name     |-> IF HEAPU32_slice5(heap, offset \div 4)[3] /= 0
                THEN <<UTF8ToString(HEAPU32_slice5(heap, offset \div 4)[3])>>
                ELSE model.name,
   children |-> UnpackChildren_FromOne(
                  heap, HEAPU32_slice5(heap, offset \div 4)[5],
                  HEAPU32_slice5(heap, offset \div 4)[4], 1)]

\* XmlParser._unpackModel (lines 963-978) on the heap: model is the object
\* passed in ({name} from _elementDecl, {} for a child).  The engine's
\* offsets are multiples of 4.
RECURSIVE XmlParser_unpackModel(_, _, _)
RECURSIVE UnpackChildren(_, _, _, _)
UnpackChildren(heap, children, numchildren, c) ==
  IF c >= numchildren THEN <<>>
  ELSE <<XmlParser_unpackModel(heap, children + (20 * c), [name |-> <<>>])>>
         \o UnpackChildren(heap, children, numchildren, c + 1)
XmlParser_unpackModel(heap, offset, model) ==
  [type     |-> HEAPU32_slice5(heap, offset \div 4)[1],
   quant    |-> HEAPU32_slice5(heap, offset \div 4)[2],
   name     |-> IF HEAPU32_slice5(heap, offset \div 4)[3] /= 0
                THEN <<UTF8ToString(HEAPU32_slice5(heap, offset \div 4)[3])>>
                ELSE model.name,
   children |-> UnpackChildren(heap, HEAPU32_slice5(heap, offset \div 4)[5],
                               HEAPU32_slice5(heap, offset \div 4)[4], 0)]

\* The content model the engine reports for
\* <!ELEMENT TVSCHEDULE (CHANNEL+)>: a sequence of one name.
ModelTVSchedule ==
  Group(6, 0,
        <<Leaf(4, 3, <<"CHANNEL">>)>>)

\* Content models of declarations: names with any quantifier, EMPTY, ANY
\* and (#PCDATA), groups of one or two names, and groups holding a group.
NameModels ==
  {Leaf(4, q, <<HeapStrings[k]>>) :
     q \in 0..3, k \in 1..Len(HeapStrings)}
FlatModels ==
  {Group(ty, q, kids) :
     ty \in {5, 6},
     q \in {0, 3},
     kids \in {<<n>> : n \in NameModels}
              \cup {<<n, m>> : n \in NameModels, m \in NameModels}}
NestedModels ==
  {Group(6, 0, kids) :
     kids \in {<<g>> : g \in FlatModels}
              \cup {<<Leaf(4, 1, <<"PROGRAM">>), g>> :
                      g \in FlatModels}}
ContentModels ==
  {Leaf(1, 0, <<>>),
   Leaf(2, 0, <<>>),
   Leaf(3, 0, <<>>),
   Group(3, 2,
         <<Leaf(4, 0, <<"CHANNEL">>)>>)}
    \cup FlatModels \cup NestedModels

\* The engine has built the content model of a declaration of the element
\* TVSCHEDULE at byte offset 8 of its heap: inst holds the declaration, eng
\* the heap.
InitModel ==
  /\ pointers = <<>>
  /\ unused = <<>>
  /\ \E t \in ContentModels :
       /\ inst = [name |-> "TVSCHEDULE", content |-> t, offset |-> 8]
       /\ eng = PackedHeap(t)
  /\ live = {}
  /\ hist = "declared"
  /\ lastCall = NoCall

\* const m = this._unpackModel(model, {name}) of _elementDecl
UnpackModel ==
  /\ hist = "declared"
  /\ hist' = "unpacked"
  /\ lastCall' = [op |-> "unpackModel",
                  m |-> XmlParser_unpackModel(eng, inst.offset,
                                              [name |-> <<inst.name>>])]
  /\ UNCHANGED <<pointers, unused, inst, eng, live>>

NextModel == UnpackModel

SpecModel == InitModel /\ [][NextModel]_vars

\* The tree m has the type, the quantifier and the name of the content
\* model t, and as many children as t, each like the child of t at its
\* place.
RECURSIVE SameTree(_, _)
SameTree(m, t) ==
  /\ m.type = t.type
  /\ m.quant = t.quant
  /\ t.name /= <<>> => m.name = t.name
  /\ Len(m.children) = Len(t.kids)
  /\ \A c \in 1..Len(t.kids) : SameTree(m.children[c], t.kids[c])

\* C37: the tree _unpackModel builds from the engine's records has, at
\* every node, the type and quantifier of that node's record and exactly
\* its child-count children in array order; for (CHANNEL+) the root has one
\* child, named CHANNEL, with quantifier 3.
C37_UnpackedTreeMatchesRecords ==
  lastCall.op = "unpackModel" =>
    /\ SameTree(lastCall.m, inst.content)
    /\ lastCall.m.name = <<"TVSCHEDULE">>
    /\ inst.content = ModelTVSchedule =>
         /\ Len(lastCall.m.children) = 1
         /\ lastCall.m.children[1].name = <<"CHANNEL">>
         /\ lastCall.m.children[1].quant = 3
         /\ lastCall.m.children[1].children = <<>>

\* The model of (CHANNEL+) was unpacked.
C37_Witness ==
  /\ lastCall.op = "unpackModel"
  /\ inst.content = ModelTVSchedule
  /\ Len(lastCall.m.children) = 1
  /\ lastCall.m.children[1].name = <<"CHANNEL">>

====
